---- MODULE Spec2Model ----
(***************************************************************************)
(* Model of the CodeVibe-Journal backend services: the daily-log manager   *)
(* (log.service.ts), the analysis orchestrator and insight generator       *)
(* (repo.service.ts), the provider client (activity.service.ts), the       *)
(* in-process cache (cache.service.ts) and the relational schema they run  *)
(* against (CREATE TABLE statements).                                       *)
(***************************************************************************)
EXTENDS Integers, Sequences, FiniteSets, TLC

VARIABLES
    repositories,   \* rows of table repositories
    daily_logs,     \* rows of table daily_logs
    activity_days,  \* rows of table activity_days
    cache,          \* CacheService.cache : key -> [value, expiresAt]
    now,            \* Date.now() in milliseconds
    ticks,          \* number of clock advances so far
    nextRepoId,     \* next value of uuid_generate_v4() for repositories
    nextLogId,      \* next value of uuid_generate_v4() for daily_logs
    res,            \* outcome of the last completed service call
    llmIn,          \* replies of the text-generation service to the four prompts
    llmOut,         \* value LLMService.analyzeRepository returned for llmIn
    arg,            \* arguments of one call of a side-effect-free function
    ret,            \* what that call returned (empty before the call)
    inflight        \* requests in flight: the position and locals of each

vars == <<repositories, daily_logs, activity_days, cache, now, ticks,
          nextRepoId, nextLogId, res, llmIn, llmOut, arg, ret, inflight>>

repoVars == <<repositories, cache, now, ticks, nextRepoId>>
logVars  == <<daily_logs, activity_days, nextLogId>>
llmVars  == <<llmIn, llmOut>>
fnVars   == <<arg, ret>>

----------------------------------------------------------------------------
(* Bounds of the model *)

MaxRepoId == 2      \* repository rows ever inserted
MaxLogId  == 2      \* log rows ever inserted
MaxTicks  == 1      \* number of clock advances

Users == {"u1", "u2"}
Urls  == { <<"github.com", "a", "x">>, <<"github.com", "b", "y">> }
Dates == {1, 2}      \* log_date / activity_date values
Hours == {0, 2}      \* hours_worked values

NullId == 0         \* SQL NULL / JS undefined in an id column or argument
BadId  == -1        \* a path parameter that is not a well-formed UUID
UNDEF  == "undefined"
NULL   == "null"

RepoIds   == 1..MaxRepoId
LogIds    == 1..MaxLogId
Contents  == {"c1"}  \* content of a new log
Moods     == {"ok"}

NoHours == -1       \* hoursWorked left out of the request body

----------------------------------------------------------------------------
(* Generic helpers *)

RECURSIVE SumHours(_)
SumHours(S) ==
    IF S = {} THEN 0
    ELSE LET r == CHOOSE x \in S : TRUE
         IN  r.hours_worked + SumHours(S \ {r})

LogsOn(logs, userId, date) == { l \in logs : l.user_id = userId /\ l.log_date = date }

(* A service call leaves its outcome in res.  n flips on every call so that
   two identical calls in a row are still two steps. *)
Result(op, user, id, url, status, out, path, calls) ==
    [op |-> op, user |-> user, id |-> id, url |-> url, status |-> status,
     out |-> out, path |-> path, calls |-> calls, req |-> <<>>, n |-> 1 - res.n]

NoCalls == [metadata |-> 0, tree |-> 0, llm |-> 0, lookup |-> 0, insert |-> 0]

IsUuid(id) == id # BadId

----------------------------------------------------------------------------
(* Relational schema: the constraints the datastore enforces *)

\* daily_logs: UNIQUE(user_id, repo_id, log_date).  A UNIQUE constraint treats
\* NULLs as distinct, so a row whose repo_id is NULL never conflicts.
DailyLogsUniqueViolation(rows, row) ==
    /\ row.repo_id # NullId
    /\ \E r \in rows : /\ r.user_id = row.user_id
                       /\ r.repo_id = row.repo_id
                       /\ r.log_date = row.log_date

\* daily_logs.repo_id REFERENCES repositories(id)
DailyLogsForeignKeyViolation(repos, row) ==
    /\ row.repo_id # NullId
    /\ ~ \E p \in repos : p.id = row.repo_id

\* daily_logs.repo_id ... ON DELETE SET NULL
OnDeleteSetNull(rows, deletedIds) ==
    { IF r.repo_id \in deletedIds THEN [r EXCEPT !.repo_id = NullId] ELSE r
      : r \in rows }

\* a constraint UNIQUE(user_id, github_url) in place of the one declared
RepositoriesUniqueViolation_PerUser(repos, row) ==
    \E p \in repos : p.github_url = row.github_url /\ p.user_id = row.user_id

\* repositories: github_url TEXT NOT NULL UNIQUE
RepositoriesUniqueViolation(repos, row) ==
    \E p \in repos : p.github_url = row.github_url

\* an upsert without its conflict target: a plain insert
Upsert_Insert(rows, row) == rows \cup {row}

\* activity_days: UNIQUE(user_id, activity_date), the upsert's conflict target
Upsert(rows, row) ==
    { a \in rows : ~ (a.user_id = row.user_id /\ a.activity_date = row.activity_date) }
        \cup {row}

----------------------------------------------------------------------------
(* LogService *)

\* mutant: the recompute query drops its log_date filter
updateActivityForDate_AnyDate(logs, acts, userId, date) ==
    LET mine       == { l \in logs : l.user_id = userId }
        logCount   == Cardinality(mine)
        totalHours == SumHours(mine)
        isActive   == logCount > 0
    IN  Upsert(acts, [user_id |-> userId, activity_date |-> date,
                      log_count |-> logCount, total_hours |-> totalHours,
                      is_active |-> isActive])

\* the table activity_days after updateActivityForDate(userId, date) ran
\* against the log rows `logs`
updateActivityForDate(logs, acts, userId, date) ==
    LET mine       == { l \in logs : l.user_id = userId /\ l.log_date = date }
        logCount   == Cardinality(mine)
        totalHours == SumHours(mine)
        isActive   == logCount > 0
    IN  Upsert(acts, [user_id |-> userId, activity_date |-> date,
                      log_count |-> logCount, total_hours |-> totalHours,
                      is_active |-> isActive])

createLog(userId, repoId, logDate, content, hoursWorked, mood) ==
    LET row == [id |-> nextLogId, user_id |-> userId, repo_id |-> repoId,
                log_date |-> logDate, content |-> content,
                hours_worked |-> hoursWorked,
                mood |-> IF mood = UNDEF THEN NULL ELSE mood]
        req == <<repoId, logDate>>
    IN  /\ IF DailyLogsUniqueViolation(daily_logs, row)
           THEN /\ res' = [Result("createLog", userId, NullId, <<>>, 409, {}, "", NoCalls)
                              EXCEPT !.req = req]
                /\ UNCHANGED logVars
           ELSE IF DailyLogsForeignKeyViolation(repositories, row)
           THEN /\ res' = [Result("createLog", userId, NullId, <<>>, 500, {}, "", NoCalls)
                              EXCEPT !.req = req]
                /\ UNCHANGED logVars
           ELSE /\ nextLogId <= MaxLogId
                /\ daily_logs' = daily_logs \cup {row}
                /\ nextLogId' = nextLogId + 1
                /\ activity_days' =
                       updateActivityForDate(daily_logs', activity_days, userId, logDate)
                /\ res' = [Result("createLog", userId, row.id, <<>>, 200, {row}, "", NoCalls)
                              EXCEPT !.req = req]
        /\ UNCHANGED <<repoVars, llmVars, fnVars, inflight>>

\* an update that also files the row under another date
ApplyLogUpdates_Date(r, updates) ==
    [r EXCEPT !.content      = IF updates.content = UNDEF THEN @ ELSE updates.content,
              !.hours_worked = IF updates.hoursWorked = NoHours THEN @ ELSE updates.hoursWorked,
              !.mood         = IF updates.mood = UNDEF THEN @ ELSE updates.mood,
              !.log_date     = 2]

\* updates.x = UNDEF (NoHours) stands for a field the request body leaves out
ApplyLogUpdates(r, updates) ==
    [r EXCEPT !.content      = IF updates.content = UNDEF THEN @ ELSE updates.content,
              !.hours_worked = IF updates.hoursWorked = NoHours THEN @ ELSE updates.hoursWorked,
              !.mood         = IF updates.mood = UNDEF THEN @ ELSE updates.mood]

LogUpdate(content, hoursWorked, mood) ==
    [content |-> content, hoursWorked |-> hoursWorked, mood |-> mood]

\* request bodies of PATCH /logs/:id the model exercises
LogUpdates ==
    { LogUpdate(UNDEF, NoHours, UNDEF), LogUpdate("c2", NoHours, "ok") }
        \cup { LogUpdate(UNDEF, h, UNDEF) : h \in Hours }

EmptyUpdate(updates) ==
    updates.content = UNDEF /\ updates.hoursWorked = NoHours /\ updates.mood = UNDEF

\* emptyPatchMatches: whether the datastore returns the row for an update
\* that sets no column (the client library decides; both are possible)
updateLog(logId, userId, updates, emptyPatchMatches) ==
    LET hit == { l \in daily_logs : IsUuid(logId) /\ l.id = logId /\ l.user_id = userId }
    IN  /\ EmptyUpdate(updates) \/ emptyPatchMatches
        /\ IF hit = {} \/ ~emptyPatchMatches
           THEN /\ res' = Result("updateLog", userId, logId, <<>>, 404, {}, "", NoCalls)
                /\ UNCHANGED logVars
           ELSE LET old  == CHOOSE l \in hit : TRUE
                    data == ApplyLogUpdates(old, updates)
                IN  /\ daily_logs' = (daily_logs \ {old}) \cup {data}
                    /\ activity_days' = updateActivityForDate(daily_logs', activity_days,
                                                              userId, data.log_date)
                    /\ res' = Result("updateLog", userId, logId, <<>>, 200, {data}, "", NoCalls)
                    /\ UNCHANGED nextLogId
        /\ UNCHANGED <<repoVars, llmVars, fnVars, inflight>>

deleteLog(logId, userId) ==
    LET log == { l \in daily_logs : IsUuid(logId) /\ l.id = logId /\ l.user_id = userId }
    IN  /\ IF ~IsUuid(logId)
           THEN \* the delete statement itself errors on a malformed id
                /\ res' = Result("deleteLog", userId, logId, <<>>, 404, {}, "", NoCalls)
                /\ UNCHANGED logVars
           ELSE /\ daily_logs' = daily_logs \ log
                /\ activity_days' =
                       IF log # {}
                       THEN updateActivityForDate(daily_logs', activity_days, userId,
                                                  (CHOOSE l \in log : TRUE).log_date)
                       ELSE activity_days
                /\ res' = Result("deleteLog", userId, logId, <<>>, 200, {}, "", NoCalls)
                /\ UNCHANGED nextLogId
        /\ UNCHANGED <<repoVars, llmVars, fnVars, inflight>>

getLogsByDate(userId, date) ==
    /\ res' = Result("getLogsByDate", userId, NullId, <<>>, 200,
                     { l \in daily_logs : l.user_id = userId /\ l.log_date = date },
                     "", NoCalls)
    /\ UNCHANGED <<logVars, repoVars, llmVars, fnVars, inflight>>

----------------------------------------------------------------------------
(* ActivityService *)

\* Calendar dates are day numbers.  A DATE column comes back as the string
\* YYYY-MM-DD; new Date(string) is midnight UTC of that day, and
\* setHours(0, 0, 0, 0) moves it to the local midnight before it: the same
\* calendar day at UTC and east of it, the day before west of it.
LocalMidnight(date, west) == IF west THEN date - 1 ELSE date

Max(a, b) == IF a >= b THEN a ELSE b

RECURSIVE SortDesc(_)
SortDesc(S) ==
    IF S = {} THEN << >>
    ELSE LET m == CHOOSE x \in S : \A y \in S : y <= x
         IN  <<m>> \o SortDesc(S \ {m})

\* an active-day query that forgets .eq('is_active', true)
ActiveDates_AnyRow(acts, userId) ==
    SortDesc({ a.activity_date : a \in { b \in acts : b.user_id = userId } })

\* .eq('user_id', userId).eq('is_active', true)
\*     .order('activity_date', { ascending: false })
ActiveDates(acts, userId) ==
    SortDesc({ a.activity_date :
                 a \in { b \in acts : b.user_id = userId /\ b.is_active } })

\* the first loop, from index i (1-based; the code's i is i - 1)
RECURSIVE CurrentFrom(_, _, _, _)
CurrentFrom(activities, i, today, west) ==
    IF i > Len(activities) THEN 0
    ELSE IF LocalMidnight(activities[i], west) = today - (i - 1)
    THEN 1 + CurrentFrom(activities, i + 1, today, west)
    ELSE 0

RECURSIVE LongestFrom(_, _, _, _)

\* a second loop that counts the active days instead of the runs
LongestFrom_Count(activities, i, longestStreak, tempStreak) == Len(activities)

\* the second loop, from index i, and the Math.max after it
LongestFrom(activities, i, longestStreak, tempStreak) ==
    IF i > Len(activities) - 1 THEN Max(longestStreak, tempStreak)
    ELSE IF activities[i] - activities[i + 1] = 1
    THEN LongestFrom(activities, i + 1, longestStreak, tempStreak + 1)
    ELSE LongestFrom(activities, i + 1, Max(longestStreak, tempStreak), 1)

StreakOf(acts, userId, today, west) ==
    LET activities == ActiveDates(acts, userId)
    IN  IF Len(activities) = 0
        THEN [currentStreak |-> 0, longestStreak |-> 0, lastActiveDate |-> NULL]
        ELSE [currentStreak  |-> CurrentFrom(activities, 1, today, west),
              longestStreak  |-> LongestFrom(activities, 1, 0, 1),
              lastActiveDate |-> activities[1]]

\* calculateStreak(userId) on the local calendar day today
calculateStreak(userId, today, west) ==
    /\ res' = Result("calculateStreak", userId, NullId, <<>>, 200,
                     { StreakOf(activity_days, userId, today, west) }, "", NoCalls)
    /\ UNCHANGED <<repoVars, logVars, llmVars, fnVars, inflight>>

\* getDateRange(period) on the local calendar day today; only 'week' is
\* modelled
getDateRange(period, today) ==
    [startDate |-> today - 7, endDate |-> today]

RECURSIVE SumOf(_, _)
SumOf(S, field) ==
    IF S = {} THEN 0
    ELSE LET r == CHOOSE x \in S : TRUE IN r[field] + SumOf(S \ {r}, field)

MetricsOf(acts, logs, userId, period, today) ==
    LET range == getDateRange(period, today)
        activities == { a \in acts : /\ a.user_id = userId
                                      /\ a.activity_date >= range.startDate
                                      /\ a.activity_date <= range.endDate }
        inRange == { l \in logs : /\ l.user_id = userId
                                   /\ l.log_date >= range.startDate
                                   /\ l.log_date <= range.endDate }
    IN  [totalHours  |-> SumOf(activities, "total_hours"),
         totalLogs   |-> SumOf(activities, "log_count"),
         activeDays  |-> Cardinality({ a \in activities : a.is_active }),
         uniqueRepos |-> Cardinality({ l.repo_id : l \in inRange } \ {NullId}),
         period      |-> period,
         startDate   |-> range.startDate,
         endDate     |-> range.endDate]

getProductivityMetrics(userId, period, today) ==
    /\ res' = Result("getProductivityMetrics", userId, NullId, <<>>, 200,
                     { MetricsOf(activity_days, daily_logs, userId, period, today) },
                     "", NoCalls)
    /\ UNCHANGED <<repoVars, logVars, llmVars, fnVars, inflight>>

----------------------------------------------------------------------------
(* LLMService: the insight generator *)

WS == " "

\* String.prototype.trim on a text given as a sequence of characters
RECURSIVE TrimLeft(_)
TrimLeft(t) == IF t # <<>> /\ Head(t) = WS THEN TrimLeft(Tail(t)) ELSE t

RECURSIVE TrimRight(_)
TrimRight(t) ==
    IF t # <<>> /\ t[Len(t)] = WS THEN TrimRight(SubSeq(t, 1, Len(t) - 1)) ELSE t

Trim(t) == TrimRight(TrimLeft(t))

\* A reply of the text-generation service to one prompt:
\*   kind "throw"    the request rejects (network error, API error)
\*   kind "nochoice" a response whose choices[0] is missing
\*   kind "text"     a response whose choices[0].message.content is `text`
Reply(kind, text) == [kind |-> kind, text |-> text]

\* response.choices[0]?.message?.content?.trim(); <<>> is the falsy value
\* (undefined or the empty string)
ContentOf(reply) == IF reply.kind = "text" THEN Trim(reply.text) ELSE <<>>

getFallbackSummary(metadata) ==
    <<metadata.full_name, " is a ",
      IF metadata.language = UNDEF THEN "software" ELSE metadata.language,
      " project",
      IF metadata.description = UNDEF THEN "" ELSE ": ",
      IF metadata.description = UNDEF THEN "" ELSE metadata.description,
      ". The repository has ", ToString(metadata.stars), " stars and ",
      ToString(metadata.forks), " forks.">>

\* bands whose upper edges belong to the lower band
getFallbackVibe_Inclusive(scanResults) ==
    IF scanResults.complexityScore <= 30 THEN <<"Learning Project">>
    ELSE IF scanResults.complexityScore <= 50 THEN <<"Personal Tool">>
    ELSE IF scanResults.complexityScore <= 70 THEN <<"Open Source Library">>
    ELSE <<"Enterprise">>

getFallbackVibe(scanResults) ==
    IF scanResults.complexityScore < 30 THEN <<"Learning Project">>
    ELSE IF scanResults.complexityScore < 50 THEN <<"Personal Tool">>
    ELSE IF scanResults.complexityScore < 70 THEN <<"Open Source Library">>
    ELSE <<"Enterprise">>

getFallbackDifficulty(scanResults) ==
    IF scanResults.complexityScore < 25 THEN <<"Beginner">>
    ELSE IF scanResults.complexityScore < 50 THEN <<"Intermediate">>
    ELSE IF scanResults.complexityScore < 75 THEN <<"Advanced">>
    ELSE <<"Expert">>

getFallbackImprovements ==
    << <<"[", "documentation", "] ", "Add README", ": ",
         "Create comprehensive documentation explaining project setup and usage.">>,
       <<"[", "testing", "] ", "Implement tests", ": ",
         "Add unit and integration tests to ensure code reliability.">>,
       <<"[", "code-quality", "] ", "Add linting", ": ",
         "Set up ESLint or similar tools for consistent code style.">> >>

getFallbackAnalysis(metadata, scanResults) ==
    [summary      |-> getFallbackSummary(metadata),
     vibe         |-> getFallbackVibe(scanResults),
     difficulty   |-> getFallbackDifficulty(scanResults),
     improvements |-> getFallbackImprovements]

\* What a generate* method hands to Promise.all: a fulfilled value, or a
\* rejection when an error escapes the method.
Fulfilled(v) == [raised |-> FALSE, value |-> v]
Rejected     == [raised |-> TRUE,  value |-> <<>>]

generateRepoSummary(reply, metadata) ==
    IF reply.kind = "throw" \/ ContentOf(reply) = <<>>
    THEN Fulfilled(getFallbackSummary(metadata))
    ELSE Fulfilled(ContentOf(reply))

classifyVibe(reply, scanResults) ==
    IF reply.kind = "throw" \/ ContentOf(reply) = <<>>
    THEN Fulfilled(getFallbackVibe(scanResults))
    ELSE Fulfilled(ContentOf(reply))

predictDifficulty(reply, scanResults) ==
    IF reply.kind = "throw" \/ ContentOf(reply) = <<>>
    THEN Fulfilled(getFallbackDifficulty(scanResults))
    ELSE Fulfilled(ContentOf(reply))

\* The improvement reply is JSON text.  A JSON document is written here as
\* one character of the text, named after the value JSON.parse gives for it:
\*   "~"   text that is not JSON            (JSON.parse throws)
\*   "N"   null          "O"  an object     "S"  a string     (no .map)
\*   "[]"  the empty array
\*   "[g]" an array of one well-formed suggestion
\*   "[gg]" an array of two well-formed suggestions
\*   "[p]" an array of one object without title and description
\*   "[n]" an array holding null            (imp.category throws)
JsonDocs == {"~", "N", "O", "S", "[]", "[g]", "[gg]", "[p]", "[n]"}

Suggestion(c, t, d) == [category |-> c, title |-> t, description |-> d]
GoodItem   == Suggestion("testing", "Add unit tests", "Implement unit tests using Jest.")
OtherItem  == Suggestion("security", "Pin versions", "Pin dependency versions.")
PartItem   == Suggestion("devex", UNDEF, UNDEF)
NullItem   == Suggestion(NULL, NULL, NULL)

\* JSON.parse(content): ok = FALSE when it throws; array = FALSE when the
\* value has no map method
JsonParse(content) ==
    IF Len(content) # 1 \/ content[1] \notin JsonDocs \/ content[1] = "~"
    THEN [ok |-> FALSE, array |-> FALSE, items |-> <<>>]
    ELSE CASE content[1] = "[]"   -> [ok |-> TRUE, array |-> TRUE, items |-> <<>>]
           [] content[1] = "[g]"  -> [ok |-> TRUE, array |-> TRUE, items |-> <<GoodItem>>]
           [] content[1] = "[gg]" -> [ok |-> TRUE, array |-> TRUE, items |-> <<GoodItem, OtherItem>>]
           [] content[1] = "[p]"  -> [ok |-> TRUE, array |-> TRUE, items |-> <<PartItem>>]
           [] content[1] = "[n]"  -> [ok |-> TRUE, array |-> TRUE, items |-> <<NullItem>>]
           [] OTHER               -> [ok |-> TRUE, array |-> FALSE, items |-> <<>>]

\* `[${imp.category}] ${imp.title}: ${imp.description}`; an absent property
\* prints as undefined
FormatImprovement(imp) ==
    <<"[", imp.category, "] ", imp.title, ": ", imp.description>>

generateImprovementPlan(reply) ==
    LET content == ContentOf(reply)
        parsed  == JsonParse(content)
    IN  IF \/ reply.kind = "throw"
           \/ content = <<>>
           \/ ~parsed.ok
           \/ ~parsed.array
           \/ \E i \in 1..Len(parsed.items) : parsed.items[i] = NullItem
        THEN Fulfilled(getFallbackImprovements)
        ELSE Fulfilled([i \in 1..Len(parsed.items) |-> FormatImprovement(parsed.items[i])])

\* LLMService.analyzeRepository(metadata, scanResults) under the replies
\* r.summary, r.vibe, r.difficulty, r.improvements
LLMAnalyze(r, metadata, scanResults) ==
    LET summary      == generateRepoSummary(r.summary, metadata)
        vibe         == classifyVibe(r.vibe, scanResults)
        difficulty   == predictDifficulty(r.difficulty, scanResults)
        improvements == generateImprovementPlan(r.improvements)
    IN  IF summary.raised \/ vibe.raised \/ difficulty.raised \/ improvements.raised
        THEN [raised |-> FALSE, value |-> getFallbackAnalysis(metadata, scanResults)]
        ELSE [raised |-> FALSE,
              value  |-> [summary      |-> summary.value,
                          vibe         |-> vibe.value,
                          difficulty   |-> difficulty.value,
                          improvements |-> improvements.value]]

----------------------------------------------------------------------------
(* helpers.ts: parseGitHubUrl, retryWithBackoff *)

\* A URL is <<hostname, owner, repo>>; the analyze route admits only URLs
\* matching ^https?://(www\.)?github\.com/owner/repo/?$
parseGitHubUrl(url) ==
    IF url[1] # "github.com" /\ url[1] # "www.github.com"
    THEN {}
    ELSE {[owner |-> url[2], repo |-> url[3]]}

maxRetries   == 3       \* retryWithBackoff default
initialDelay == 1000    \* retryWithBackoff default, milliseconds

RECURSIVE Pow2(_)
Pow2(i) == IF i = 0 THEN 1 ELSE 2 * Pow2(i - 1)

\* retryWithBackoff(fn) where the i-th invocation of fn settles as
\* attempts[i]: [ok |-> TRUE] or [ok |-> FALSE, error |-> e].
\* Gives the outcome, the number of invocations and the delays slept.
RECURSIVE RetryFrom(_, _, _)
RetryFrom(attempts, i, slept) ==
    IF attempts[i + 1].ok
    THEN [ok |-> TRUE, error |-> attempts[i + 1].error, calls |-> i + 1, slept |-> slept]
    ELSE IF i < maxRetries - 1
    THEN RetryFrom(attempts, i + 1, Append(slept, initialDelay * Pow2(i)))
    ELSE [ok |-> FALSE, error |-> attempts[i + 1].error, calls |-> i + 1, slept |-> slept]

retryWithBackoff(attempts) == RetryFrom(attempts, 0, <<>>)

----------------------------------------------------------------------------
(* GitHubService: the provider client *)

\* What the provider answers to one request:
\*   "200", "404", "403", "409", "500"  the HTTP status
\*   "403rl"  status 403 with header x-ratelimit-remaining: 0
\*   "net"    no response at all (timeout, connection reset)
ProviderAnswers == {"200", "404", "403", "403rl", "409", "500", "net"}

\* An error value: AppError(statusCode) or an axios error carrying
\* error.response.status (0 when there is no response)
AppError(code)    == [isAppError |-> TRUE,  statusCode |-> code, responseStatus |-> 0]
AxiosError(code)  == [isAppError |-> FALSE, statusCode |-> 0,    responseStatus |-> code]
NoError           == [isAppError |-> FALSE, statusCode |-> 0,    responseStatus |-> 0]

\* one client.get through the response interceptor
ClientGet(answer) ==
    CASE answer = "200"   -> [ok |-> TRUE,  error |-> NoError]
      [] answer = "403rl" -> [ok |-> FALSE, error |-> AppError(429)]
      [] answer = "404"   -> [ok |-> FALSE, error |-> AxiosError(404)]
      [] answer = "403"   -> [ok |-> FALSE, error |-> AxiosError(403)]
      [] answer = "409"   -> [ok |-> FALSE, error |-> AxiosError(409)]
      [] answer = "500"   -> [ok |-> FALSE, error |-> AxiosError(500)]
      [] OTHER            -> [ok |-> FALSE, error |-> AxiosError(0)]

Gets(answers) == [i \in 1..Len(answers) |-> ClientGet(answers[i])]

\* fetchRepoMetadata(githubUrl) when the provider answers the successive
\* requests with `answers`
fetchRepoMetadata(githubUrl, answers) ==
    IF parseGitHubUrl(githubUrl) = {}
    THEN [ok |-> FALSE, error |-> AppError(400), calls |-> 0]
    ELSE LET r == retryWithBackoff(Gets(answers))
         IN  IF r.ok THEN [ok |-> TRUE, error |-> NoError, calls |-> r.calls]
             ELSE IF r.error.responseStatus = 404
             THEN [ok |-> FALSE, error |-> AppError(404), calls |-> r.calls]
             ELSE IF r.error.responseStatus = 403
             THEN [ok |-> FALSE, error |-> AppError(403), calls |-> r.calls]
             ELSE [ok |-> FALSE, error |-> AppError(500), calls |-> r.calls]

\* fetchRepoTree: `tree` is the tree the provider holds; empty = TRUE when
\* the method returns [] for a 409
fetchRepoTree(answers) ==
    LET r == retryWithBackoff(Gets(answers))
    IN  IF r.ok THEN [ok |-> TRUE, empty |-> FALSE, error |-> NoError, calls |-> r.calls]
        ELSE IF r.error.responseStatus = 409
        THEN [ok |-> TRUE, empty |-> TRUE, error |-> NoError, calls |-> r.calls]
        ELSE [ok |-> FALSE, empty |-> FALSE, error |-> AppError(500), calls |-> r.calls]

\* cloneRepoStructure: metadata, then the tree
cloneRepoStructure(githubUrl, metaAnswers, treeAnswers) ==
    LET m == fetchRepoMetadata(githubUrl, metaAnswers)
        t == fetchRepoTree(treeAnswers)
    IN  IF ~m.ok
        THEN [ok |-> FALSE, empty |-> FALSE, error |-> m.error,
              metadataCalls |-> m.calls, treeCalls |-> 0]
        ELSE [ok |-> t.ok, empty |-> t.empty, error |-> t.error,
              metadataCalls |-> m.calls, treeCalls |-> t.calls]

----------------------------------------------------------------------------
(* ScannerService *)

\* calculateComplexity over the five counts it reads
\* a score that adds the counts themselves instead of their band points
calculateComplexity_Counts(fileCount, dirCount, languageCount, depCount, configCount) ==
    fileCount + dirCount + languageCount + depCount + configCount

calculateComplexity(fileCount, dirCount, languageCount, depCount, configCount) ==
    LET files == IF fileCount < 10 THEN 5
                 ELSE IF fileCount < 50 THEN 10
                 ELSE IF fileCount < 200 THEN 15
                 ELSE IF fileCount < 500 THEN 20
                 ELSE IF fileCount < 1000 THEN 25
                 ELSE 30
        dirs  == IF dirCount < 5 THEN 5
                 ELSE IF dirCount < 15 THEN 10
                 ELSE IF dirCount < 30 THEN 15
                 ELSE 20
        langs == IF languageCount = 1 THEN 5
                 ELSE IF languageCount = 2 THEN 10
                 ELSE IF languageCount <= 4 THEN 15
                 ELSE 20
        deps  == IF depCount = 0 THEN 0
                 ELSE IF depCount = 1 THEN 5
                 ELSE IF depCount <= 3 THEN 10
                 ELSE 15
        confs == IF configCount < 5 THEN 3
                 ELSE IF configCount < 10 THEN 7
                 ELSE IF configCount < 20 THEN 11
                 ELSE 15
        score == files + dirs + langs + deps + confs
    IN  IF score < 100 THEN score ELSE 100

\* A file tree is kept as the five counts calculateComplexity reads from it
\* and the totals scanCodebase reports.
Tree(files, dirs, languages, deps, configs) ==
    [files |-> files, dirs |-> dirs, languages |-> languages,
     deps |-> deps, configs |-> configs]

EmptyTree == Tree(0, 0, 0, 0, 0)

scanCodebase(fileTree) ==
    [totalFiles       |-> fileTree.files,
     totalDirectories |-> fileTree.dirs,
     complexityScore  |-> calculateComplexity(fileTree.files, fileTree.dirs,
                              fileTree.languages, fileTree.deps, fileTree.configs)]

----------------------------------------------------------------------------
(* CacheService *)

DefaultTtl == 3600      \* seconds, CacheService.set default
RepoTtl    == 86400     \* seconds, the ttl analyzeRepository passes

cacheKey(githubUrl) == <<"repo:", githubUrl>>

Expired(entry, t) == t > entry.expiresAt

\* a set that takes its ttl for milliseconds
\* a read that answers null for an expired entry but leaves it in the map
cacheGet_NoEviction(c, key, t) ==
    IF key \notin DOMAIN c
    THEN [value |-> {}, cache |-> c]
    ELSE IF Expired(c[key], t)
    THEN [value |-> {}, cache |-> c]
    ELSE [value |-> {c[key].value}, cache |-> c]

\* get(key) at time t: the value (a set of at most one element) and the map
\* afterwards (an expired entry is deleted by the read)
cacheGet(c, key, t) ==
    IF key \notin DOMAIN c
    THEN [value |-> {}, cache |-> c]
    ELSE IF Expired(c[key], t)
    THEN [value |-> {}, cache |-> [k \in DOMAIN c \ {key} |-> c[k]]]
    ELSE [value |-> {c[key].value}, cache |-> c]

\* has(key) at time t: the answer and the map afterwards
cacheHas(c, key, t) ==
    IF key \notin DOMAIN c
    THEN [value |-> FALSE, cache |-> c]
    ELSE IF Expired(c[key], t)
    THEN [value |-> FALSE, cache |-> [k \in DOMAIN c \ {key} |-> c[k]]]
    ELSE [value |-> TRUE, cache |-> c]

\* a set that takes its ttl for milliseconds
cacheSet_Millis(c, key, value, ttl, t) ==
    [k \in DOMAIN c \cup {key} |->
        IF k = key THEN [value |-> value, expiresAt |-> t + ttl] ELSE c[k]]

cacheSet(c, key, value, ttl, t) ==
    [k \in DOMAIN c \cup {key} |->
        IF k = key THEN [value |-> value, expiresAt |-> t + ttl * 1000] ELSE c[k]]

\* a delete that leaves the entry in the map
cacheDelete_Keep(c, key) == c

cacheDelete(c, key) == [k \in DOMAIN c \ {key} |-> c[k]]

cacheCleanup(c, t) == [k \in {j \in DOMAIN c : ~Expired(c[j], t)} |-> c[k]]

----------------------------------------------------------------------------
(* RepoService *)

\* what the provider holds for a URL (GET /repos/:owner/:repo)
MetadataOf(githubUrl) ==
    [owner |-> githubUrl[2], repo |-> githubUrl[3],
     full_name |-> <<githubUrl[2], "/", githubUrl[3]>>,
     description |-> IF githubUrl[3] = "x" THEN UNDEF ELSE "a tool",
     language |-> IF githubUrl[3] = "x" THEN "TypeScript" ELSE UNDEF,
     stars |-> 7, forks |-> 0]

\* the file tree the provider holds for a URL (GET .../git/trees/:branch)
TreeOf(githubUrl) ==
    IF githubUrl[3] = "x" THEN Tree(12, 3, 2, 1, 2) ELSE Tree(1200, 40, 6, 5, 25)

Calls(metadata, tree, llm, lookup, insert) ==
    [metadata |-> metadata, tree |-> tree, llm |-> llm, lookup |-> lookup,
     insert |-> insert]

\* the row .insert({...}).select().single() gives back
InsertedRepo(id, userId, githubUrl, metadata, scanResults, llmAnalysis) ==
    [id |-> id, user_id |-> userId, github_url |-> githubUrl,
     name |-> metadata.repo,
     complexity_score |-> scanResults.complexityScore,
     difficulty_level |-> llmAnalysis.difficulty,
     vibe_classification |-> llmAnalysis.vibe,
     summary |-> llmAnalysis.summary,
     tags |-> <<>>,
     metadata |-> [improvements |-> llmAnalysis.improvements,
                   total_files |-> scanResults.totalFiles,
                   note |-> UNDEF]]

\* a cache gate that honours an entry whatever its owner
CacheHit_AnyOwner(cached, userId) == cached # {}

\* if (cached && cached.user_id === userId)
CacheHit(cached, userId) == \E c \in cached : c.user_id = userId

\* an orchestrator that never finds an earlier analysis
AlreadyAnalyzed_None(repos, userId, githubUrl) == {}

\* from('repositories').select('*').eq('user_id', ..).eq('github_url', ..)
AlreadyAnalyzed(repos, userId, githubUrl) ==
    { r \in repos : r.user_id = userId /\ r.github_url = githubUrl }

\* analyzeRepository(userId, githubUrl).  metaAnswers and treeAnswers are the
\* provider's answers to the successive metadata and tree requests, tree the
\* file tree it holds, replies the text-generation service's four replies.
analyzeRepository(userId, githubUrl, metaAnswers, treeAnswers, tree, replies) ==
    LET key      == cacheKey(githubUrl)
        got      == cacheGet(cache, key, now)
        cached   == got.value
        existing == AlreadyAnalyzed(repositories, userId, githubUrl)
        asked    == <<metaAnswers, treeAnswers>>
        clone    == cloneRepoStructure(githubUrl, metaAnswers, treeAnswers)
        metadata == MetadataOf(githubUrl)
        fileTree == IF clone.empty THEN EmptyTree ELSE tree
        scanResults == scanCodebase(fileTree)
        llmAnalysis == LLMAnalyze(replies, metadata, scanResults)
        repo     == InsertedRepo(nextRepoId, userId, githubUrl, metadata,
                                 scanResults, llmAnalysis.value)
    IN  /\ IF CacheHit(cached, userId)
           THEN \* cache hit honoured
                /\ res' = Result("analyzeRepository", userId,
                                 (CHOOSE c \in cached : TRUE).id, githubUrl, 200,
                                 cached, "cache", NoCalls)
                /\ cache' = got.cache
                /\ UNCHANGED <<repositories, nextRepoId>>
           ELSE IF existing # {}
           THEN \* already analysed by this user
                /\ res' = Result("analyzeRepository", userId,
                                 (CHOOSE r \in existing : TRUE).id, githubUrl, 200,
                                 existing, "existing", Calls(0, 0, 0, 1, 0))
                /\ cache' = cacheSet(got.cache, key, CHOOSE r \in existing : TRUE,
                                     RepoTtl, now)
                /\ UNCHANGED <<repositories, nextRepoId>>
           ELSE IF ~clone.ok
           THEN \* the provider fetch failed: the AppError is rethrown
                /\ res' = [Result("analyzeRepository", userId, NullId, githubUrl,
                                  clone.error.statusCode, {}, "fresh",
                                  Calls(clone.metadataCalls, clone.treeCalls, 0, 1, 0))
                             EXCEPT !.req = asked]
                /\ cache' = got.cache
                /\ UNCHANGED <<repositories, nextRepoId>>
           ELSE IF llmAnalysis.raised
           THEN /\ res' = [Result("analyzeRepository", userId, NullId, githubUrl,
                                  500, {}, "fresh",
                                  Calls(clone.metadataCalls, clone.treeCalls, 4, 1, 0))
                             EXCEPT !.req = asked]
                /\ cache' = got.cache
                /\ UNCHANGED <<repositories, nextRepoId>>
           ELSE IF RepositoriesUniqueViolation(repositories, repo)
           THEN \* the insert is rejected: AppError(500)
                /\ res' = [Result("analyzeRepository", userId, NullId, githubUrl,
                                  500, {}, "fresh",
                                  Calls(clone.metadataCalls, clone.treeCalls, 4, 1, 1))
                             EXCEPT !.req = asked]
                /\ cache' = got.cache
                /\ UNCHANGED <<repositories, nextRepoId>>
           ELSE /\ nextRepoId <= MaxRepoId
                /\ repositories' = repositories \cup {repo}
                /\ nextRepoId' = nextRepoId + 1
                /\ cache' = cacheSet(got.cache, key, repo, RepoTtl, now)
                /\ res' = [Result("analyzeRepository", userId, repo.id, githubUrl,
                                  200, {repo}, "fresh",
                                  Calls(clone.metadataCalls, clone.treeCalls, 4, 1, 1))
                             EXCEPT !.req = asked]
        /\ UNCHANGED <<now, ticks, logVars, llmVars, fnVars, inflight>>

getRepositoryById(repoId, userId) ==
    LET data == { r \in repositories :
                    IsUuid(repoId) /\ r.id = repoId /\ r.user_id = userId }
    IN  /\ res' = Result("getRepositoryById", userId, repoId, <<>>,
                         IF data = {} THEN 404 ELSE 200, data, "", NoCalls)
        /\ UNCHANGED <<repoVars, logVars, llmVars, fnVars, inflight>>

\* updates.set names the properties present in the request body
RepoUpdates == { [set |-> {}], [set |-> {"tags"}], [set |-> {"tags", "metadata"}] }

ApplyRepoUpdates(r, updates) ==
    [r EXCEPT !.tags     = IF "tags" \in updates.set THEN <<"t1">> ELSE @,
              !.metadata = IF "metadata" \in updates.set
                           THEN [improvements |-> <<>>, total_files |-> 0,
                                 note |-> "edited"]
                           ELSE @]

updateRepository(repoId, userId, updates, emptyPatchMatches) ==
    LET hit == { r \in repositories :
                    IsUuid(repoId) /\ r.id = repoId /\ r.user_id = userId }
    IN  /\ updates.set = {} \/ emptyPatchMatches
        /\ IF hit = {} \/ ~emptyPatchMatches
           THEN /\ res' = Result("updateRepository", userId, repoId, <<>>, 404,
                                 {}, "", NoCalls)
                /\ UNCHANGED repoVars
           ELSE LET old  == CHOOSE r \in hit : TRUE
                    data == ApplyRepoUpdates(old, updates)
                IN  /\ repositories' = (repositories \ {old}) \cup {data}
                    /\ cache' = cacheDelete(cache, cacheKey(data.github_url))
                    /\ res' = Result("updateRepository", userId, repoId,
                                     data.github_url, 200, {data}, "", NoCalls)
                    /\ UNCHANGED <<now, ticks, nextRepoId>>
        /\ UNCHANGED <<logVars, llmVars, fnVars, inflight>>

deleteRepository(repoId, userId) ==
    LET repo == { r \in repositories :
                    IsUuid(repoId) /\ r.id = repoId /\ r.user_id = userId }
    IN  /\ IF ~IsUuid(repoId)
           THEN \* the delete statement errors on a malformed id
                /\ res' = Result("deleteRepository", userId, repoId, <<>>, 404,
                                 {}, "", NoCalls)
                /\ UNCHANGED <<repositories, cache, daily_logs>>
           ELSE /\ repositories' = repositories \ repo
                /\ daily_logs' = OnDeleteSetNull(daily_logs, {r.id : r \in repo})
                /\ cache' = IF repo # {}
                            THEN cacheDelete(cache,
                                     cacheKey((CHOOSE r \in repo : TRUE).github_url))
                            ELSE cache
                /\ res' = Result("deleteRepository", userId, repoId,
                                 IF repo # {} THEN (CHOOSE r \in repo : TRUE).github_url
                                 ELSE <<>>,
                                 200, {}, "", NoCalls)
        /\ UNCHANGED <<now, ticks, nextRepoId, activity_days, nextLogId, llmVars, fnVars, inflight>>

----------------------------------------------------------------------------
(* The clock and the hourly sweep *)

TickSteps == {RepoTtl * 1000, RepoTtl * 1000 + 1}

Tick(d) ==
    /\ ticks < MaxTicks
    /\ ticks' = ticks + 1
    /\ now' = now + d
    /\ UNCHANGED <<repositories, cache, nextRepoId, logVars, res, llmVars, fnVars, inflight>>

\* setInterval(() => this.cleanup(), 60 * 60 * 1000)
Cleanup ==
    /\ cache' = cacheCleanup(cache, now)
    /\ UNCHANGED <<repositories, now, ticks, nextRepoId, logVars, res, llmVars, fnVars, inflight>>

----------------------------------------------------------------------------
(* Inputs *)

\* answers of the provider to the (at most maxRetries) requests of one fetch
AnswerSeqs ==
    { <<a, a, a>> : a \in ProviderAnswers } \cup { <<"500", "200", "200">> }

Answers200 == <<"200", "200", "200">>

TextReplies(words) ==
    { Reply("throw", <<>>), Reply("nochoice", <<>>), Reply("text", <<>>),
      Reply("text", <<WS>>), Reply("text", <<WS, WS>>) }
        \cup { Reply("text", <<w>>) : w \in words }
        \cup { Reply("text", <<WS, w, WS>>) : w \in words }

SummaryReplies    == TextReplies({"A CLI tool."})
VibeReplies       == TextReplies({"Enterprise", "Chaotic Good"})
DifficultyReplies == TextReplies({"Expert", "Very hard"})
ImprovementReplies ==
    { Reply("throw", <<>>), Reply("nochoice", <<>>), Reply("text", <<>>),
      Reply("text", <<WS>>), Reply("text", <<WS, "[g]", WS>>),
      Reply("text", <<"[g]", WS, "[g]">>) }
        \cup { Reply("text", <<d>>) : d \in JsonDocs }

Replies == [summary : SummaryReplies, vibe : VibeReplies,
            difficulty : DifficultyReplies, improvements : ImprovementReplies]

AllThrow == [summary |-> Reply("throw", <<>>), vibe |-> Reply("throw", <<>>),
             difficulty |-> Reply("throw", <<>>), improvements |-> Reply("throw", <<>>)]

SomeText == [summary |-> Reply("text", <<"A CLI tool.">>),
             vibe |-> Reply("text", <<WS, "Chaotic Good">>),
             difficulty |-> Reply("nochoice", <<>>),
             improvements |-> Reply("text", <<"[g]">>)]

LogIdArgs  == LogIds \cup {BadId}
RepoIdArgs == RepoIds \cup {BadId}

----------------------------------------------------------------------------
(* Specification of the services *)

\* no function-level call is being looked at
NoArg == [fn |-> "none"]

NoResult == [op |-> "none", user |-> "", id |-> NullId, url |-> <<>>, status |-> 0,
             out |-> {}, path |-> "", calls |-> NoCalls, req |-> <<>>, n |-> 0]

Init ==
    /\ repositories = {}
    /\ daily_logs = {}
    /\ activity_days = {}
    /\ cache = << >>
    /\ now = 0
    /\ ticks = 0
    /\ nextRepoId = 1
    /\ nextLogId = 1
    /\ res = NoResult
    /\ llmIn = [replies |-> AllThrow, url |-> CHOOSE u \in Urls : TRUE]
    /\ llmOut = {}
    /\ arg = NoArg
    /\ ret = {}
    /\ inflight = << >>

ShortCircuits(userId, githubUrl) ==
    \/ CacheHit(cacheGet(cache, cacheKey(githubUrl), now).value, userId)
    \/ AlreadyAnalyzed(repositories, userId, githubUrl) # {}

\* POST /repos/analyze with the provider answering from answerSeqs and the
\* text-generation service from scenarios
Analyze(answerSeqs, scenarios) ==
    \E userId \in Users, githubUrl \in Urls :
        IF ShortCircuits(userId, githubUrl)
        THEN analyzeRepository(userId, githubUrl, Answers200, Answers200,
                               EmptyTree, AllThrow)
        ELSE \E metaAnswers \in answerSeqs :
                IF ~fetchRepoMetadata(githubUrl, metaAnswers).ok
                THEN analyzeRepository(userId, githubUrl, metaAnswers, Answers200,
                                       EmptyTree, AllThrow)
                ELSE \E treeAnswers \in answerSeqs :
                        IF ~fetchRepoTree(treeAnswers).ok
                        THEN analyzeRepository(userId, githubUrl, metaAnswers,
                                               treeAnswers, EmptyTree, AllThrow)
                        ELSE \E replies \in scenarios :
                                analyzeRepository(userId, githubUrl, metaAnswers,
                                                  treeAnswers, TreeOf(githubUrl), replies)

GetRepository ==
    \E repoId \in RepoIdArgs, userId \in Users : getRepositoryById(repoId, userId)

UpdateRepository ==
    \E repoId \in RepoIdArgs, userId \in Users, updates \in RepoUpdates,
       emptyPatchMatches \in BOOLEAN :
        updateRepository(repoId, userId, updates, emptyPatchMatches)

DeleteRepository ==
    \E repoId \in RepoIdArgs, userId \in Users : deleteRepository(repoId, userId)

CreateLog ==
    \E userId \in Users, repoId \in RepoIds \cup {NullId}, logDate \in Dates,
       content \in Contents, hoursWorked \in Hours, mood \in {UNDEF} :
        createLog(userId, repoId, logDate, content, hoursWorked, mood)

UpdateLog(bodies) ==
    \E logId \in LogIdArgs, userId \in Users, updates \in bodies,
       emptyPatchMatches \in BOOLEAN :
        updateLog(logId, userId, updates, emptyPatchMatches)

DeleteLog ==
    \E logId \in LogIdArgs, userId \in Users : deleteLog(logId, userId)

GetLogs ==
    \E userId \in Users, date \in Dates : getLogsByDate(userId, date)

Advance == \E d \in TickSteps : Tick(d)

\* The whole service layer
Next ==
    \/ Analyze(AnswerSeqs, {AllThrow, SomeText})
    \/ GetRepository
    \/ UpdateRepository
    \/ DeleteRepository
    \/ CreateLog
    \/ UpdateLog(LogUpdates)
    \/ DeleteLog
    \/ GetLogs
    \/ Advance
    \/ Cleanup

Spec == Init /\ [][Next]_vars

\* ids of the stored repository rows and one id that names no row
StoredOrFreshIds == { r.id : r \in repositories } \cup {nextRepoId}

TagUpdates == { u \in RepoUpdates : u.set = {"tags"} }

UpdateTags ==
    \E repoId \in StoredOrFreshIds, userId \in Users, updates \in TagUpdates :
        updateRepository(repoId, userId, updates, TRUE)

DeleteStored ==
    \E repoId \in StoredOrFreshIds, userId \in Users :
        deleteRepository(repoId, userId)

\* The analysis orchestrator and its cache, the provider and the
\* text-generation service answering every request
NextRepo ==
    \/ Analyze({Answers200}, {SomeText})
    \/ UpdateTags
    \/ DeleteStored
    \/ Advance
    \/ Cleanup

SpecRepo == Init /\ [][NextRepo]_vars

\* The orchestrator under every provider answer
NextFetch ==
    \/ Analyze(AnswerSeqs, {AllThrow})
    \/ DeleteRepository

SpecFetch == Init /\ [][NextFetch]_vars

\* The daily-log manager, started after u1 has analysed one repository
SeedUrl  == CHOOSE u \in Urls : u[3] = "x"
SeedRepo ==
    InsertedRepo(1, "u1", SeedUrl, MetadataOf(SeedUrl), scanCodebase(TreeOf(SeedUrl)),
                 LLMAnalyze(AllThrow, MetadataOf(SeedUrl),
                            scanCodebase(TreeOf(SeedUrl))).value)

InitLog ==
    /\ repositories = {SeedRepo}
    /\ daily_logs = {}
    /\ activity_days = {}
    /\ cache = cacheSet(<< >>, cacheKey(SeedUrl), SeedRepo, RepoTtl, 0)
    /\ now = 0
    /\ ticks = 0
    /\ nextRepoId = 2
    /\ nextLogId = 1
    /\ res = NoResult
    /\ llmIn = [replies |-> AllThrow, url |-> CHOOSE u \in Urls : TRUE]
    /\ llmOut = {}
    /\ arg = NoArg
    /\ ret = {}
    /\ inflight = << >>

HoursUpdates == { u \in LogUpdates : u.content = UNDEF }

\* The three log mutations alone, no repository analysed yet
NextDay ==
    \/ CreateLog
    \/ UpdateLog(HoursUpdates)
    \/ DeleteLog

SpecDay == Init /\ [][NextDay]_vars

\* The log mutations with every kind of update body, one user's requests
NextEdit ==
    \/ \E logDate \in Dates, hoursWorked \in Hours :
          createLog("u1", NullId, logDate, "c1", hoursWorked, UNDEF)
    \/ \E logId \in LogIdArgs, userId \in Users, updates \in LogUpdates,
          emptyPatchMatches \in BOOLEAN :
          updateLog(logId, userId, updates, emptyPatchMatches)
    \/ \E logId \in LogIdArgs : deleteLog(logId, "u1")

SpecEdit == Init /\ [][NextEdit]_vars

NextLog ==
    \/ CreateLog
    \/ UpdateLog(HoursUpdates)
    \/ DeleteLog
    \/ DeleteRepository

SpecLog == InitLog /\ [][NextLog]_vars

\* The insight generator alone: every combination of replies
InitLLM ==
    /\ repositories = {}
    /\ daily_logs = {}
    /\ activity_days = {}
    /\ cache = << >>
    /\ now = 0
    /\ ticks = 0
    /\ nextRepoId = 1
    /\ nextLogId = 1
    /\ res = NoResult
    /\ llmIn \in [replies : Replies, url : Urls]
    /\ llmOut = {}
    /\ arg = NoArg
    /\ ret = {}
    /\ inflight = << >>

LLMAnalyzeRepository ==
    /\ llmOut = {}
    /\ llmOut' = { LLMAnalyze(llmIn.replies, MetadataOf(llmIn.url),
                              scanCodebase(TreeOf(llmIn.url))) }
    /\ UNCHANGED <<repoVars, logVars, res, llmIn, fnVars, inflight>>

NextLLM == LLMAnalyzeRepository

SpecLLM == InitLLM /\ [][NextLLM]_vars

\* Everything but arg and ret in its state after construction
StoreEmpty ==
    /\ repositories = {}
    /\ daily_logs = {}
    /\ activity_days = {}
    /\ cache = << >>
    /\ now = 0
    /\ ticks = 0
    /\ nextRepoId = 1
    /\ nextLogId = 1
    /\ res = NoResult
    /\ llmIn = [replies |-> AllThrow, url |-> CHOOSE u \in Urls : TRUE]
    /\ llmOut = {}

\* The scanner alone.  File trees are taken with their counts at and around
\* the band edges of calculateComplexity; languages, dependency manifests and
\* config-like files are all counted among the files.
FileCounts     == {0, 1, 9, 10, 49, 50, 199, 200, 499, 500, 999, 1000, 5000}
DirCounts      == {0, 4, 5, 14, 15, 29, 30, 300}
LanguageCounts == {0, 1, 2, 3, 4, 5, 30}
DepCounts      == {0, 1, 2, 3, 4, 10}
ConfigCounts   == {0, 4, 5, 9, 10, 19, 20, 200}

Trees ==
    { t \in [files : FileCounts, dirs : DirCounts, languages : LanguageCounts,
             deps : DepCounts, configs : ConfigCounts] :
        t.languages <= t.files /\ t.deps <= t.files /\ t.configs <= t.files }

InitScan ==
    /\ StoreEmpty
    /\ arg \in { [fn |-> "scanCodebase", fileTree |-> t] : t \in Trees }
    /\ ret = {}
    /\ inflight = << >>

ScanCodebase ==
    /\ arg.fn = "scanCodebase"
    /\ ret = {}
    /\ ret' = { scanCodebase(arg.fileTree) }
    /\ UNCHANGED <<repoVars, logVars, res, llmVars, arg, inflight>>

NextScan == ScanCodebase

SpecScan == InitScan /\ [][NextScan]_vars

\* The retry loop alone, one iteration at a time: fn is a provider request
\* and answers[i] is what the provider answers to its i-th invocation.  The
\* one call in flight is kept in inflight under the name "call".
RetryAnswers ==
    { <<a, b, c>> : a \in ProviderAnswers, b \in ProviderAnswers, c \in ProviderAnswers }

RetryStart == [pc |-> "try", i |-> 0, lastError |-> NoError, slept |-> << >>]

InitRetry ==
    /\ StoreEmpty
    /\ arg \in [fn : {"retryWithBackoff"}, answers : RetryAnswers]
    /\ ret = {}
    /\ inflight = [c \in {"call"} |-> RetryStart]

\* try { return await fn() } catch (error) { lastError = error; ... } of
\* iteration i, and the throw after the loop when that was the last iteration
RetryAttempt ==
    /\ arg.fn = "retryWithBackoff"
    /\ "call" \in DOMAIN inflight
    /\ inflight["call"].pc = "try"
    /\ inflight["call"].i < maxRetries
    /\ LET st == inflight["call"]
           a  == ClientGet(arg.answers[st.i + 1])
       IN  IF a.ok
           THEN /\ ret' = { [ok |-> TRUE, error |-> NoError, calls |-> st.i + 1,
                             slept |-> st.slept] }
                /\ inflight' = << >>
           ELSE IF st.i < maxRetries - 1
           THEN /\ inflight' = [inflight EXCEPT !["call"].pc = "sleep",
                                                !["call"].lastError = a.error]
                /\ UNCHANGED ret
           ELSE /\ ret' = { [ok |-> FALSE, error |-> a.error, calls |-> st.i + 1,
                             slept |-> st.slept] }
                /\ inflight' = << >>
    /\ UNCHANGED <<repoVars, logVars, res, llmVars, arg>>

\* a backoff that sleeps initialDelay every time
RetrySleep_Fixed ==
    /\ arg.fn = "retryWithBackoff"
    /\ "call" \in DOMAIN inflight
    /\ inflight["call"].pc = "sleep"
    /\ LET st == inflight["call"]
       IN  inflight' = [inflight EXCEPT
                           !["call"].pc = "try",
                           !["call"].i = st.i + 1,
                           !["call"].slept = Append(st.slept, initialDelay)]
    /\ UNCHANGED <<repoVars, logVars, res, llmVars, arg, ret>>

\* await sleep(initialDelay * Math.pow(2, i)), then i++
RetrySleep ==
    /\ arg.fn = "retryWithBackoff"
    /\ "call" \in DOMAIN inflight
    /\ inflight["call"].pc = "sleep"
    /\ LET st == inflight["call"]
       IN  inflight' = [inflight EXCEPT
                           !["call"].pc = "try",
                           !["call"].i = st.i + 1,
                           !["call"].slept = Append(st.slept, initialDelay * Pow2(st.i))]
    /\ UNCHANGED <<repoVars, logVars, res, llmVars, arg, ret>>

NextRetry ==
    \/ RetryAttempt
    \/ RetrySleep

\* fn settles (the client has a request timeout) and the timer fires
SpecRetry == InitRetry /\ [][NextRetry]_vars /\ WF_vars(NextRetry)

\* The cache alone: entries written with the default ttl, the orchestrator's
\* ttl and one second more, read and swept before, at and after their expiry
CacheValues == {"v1", "v2"}
CacheTtls   == {DefaultTtl, RepoTtl, RepoTtl + 1}

CacheSetCall ==
    \E githubUrl \in Urls, value \in CacheValues, ttl \in CacheTtls :
        /\ cache' = cacheSet(cache, cacheKey(githubUrl), value, ttl, now)
        /\ res' = Result("cacheSet", "", NullId, githubUrl, 200, {value}, "", NoCalls)
        /\ UNCHANGED <<repositories, now, ticks, nextRepoId, logVars, llmVars, fnVars, inflight>>

\* res.path tells the branch taken: no entry, entry expired, entry given
CacheBranch(c, key, t) ==
    IF key \notin DOMAIN c THEN "absent"
    ELSE IF Expired(c[key], t) THEN "expired" ELSE "present"

CacheGetCall ==
    \E githubUrl \in Urls :
        LET got == cacheGet(cache, cacheKey(githubUrl), now)
        IN  /\ cache' = got.cache
            /\ res' = Result("cacheGet", "", NullId, githubUrl, 200, got.value,
                             CacheBranch(cache, cacheKey(githubUrl), now), NoCalls)
            /\ UNCHANGED <<repositories, now, ticks, nextRepoId, logVars, llmVars, fnVars, inflight>>

CacheHasCall ==
    \E githubUrl \in Urls :
        LET got == cacheHas(cache, cacheKey(githubUrl), now)
        IN  /\ cache' = got.cache
            /\ res' = Result("cacheHas", "", NullId, githubUrl, 200, {got.value},
                             CacheBranch(cache, cacheKey(githubUrl), now), NoCalls)
            /\ UNCHANGED <<repositories, now, ticks, nextRepoId, logVars, llmVars, fnVars, inflight>>

CacheCleanupCall ==
    /\ cache' = cacheCleanup(cache, now)
    /\ res' = Result("cacheCleanup", "", NullId, <<>>, 200, {}, "", NoCalls)
    /\ UNCHANGED <<repositories, now, ticks, nextRepoId, logVars, llmVars, fnVars, inflight>>

NextCache ==
    \/ CacheSetCall
    \/ CacheGetCall
    \/ CacheHasCall
    \/ CacheCleanupCall
    \/ Advance

SpecCache == Init /\ [][NextCache]_vars

\* The daily-log manager with two requests in flight at once.  Its only
\* shared state is the datastore, so a request advances one datastore
\* statement at a time; what a statement returned is kept in the request's
\* locals until its next statement runs.
Requests == {"r1", "r2"}

Idle(p) == p \notin DOMAIN inflight

Begin(p, locals) == [q \in DOMAIN inflight \cup {p} |-> IF q = p THEN locals ELSE inflight[q]]

End(p) == [q \in DOMAIN inflight \ {p} |-> inflight[q]]

\* createLog up to its insert statement
CreateLogInsert(p, userId, repoId, logDate, content, hoursWorked, mood) ==
    LET row == [id |-> nextLogId, user_id |-> userId, repo_id |-> repoId,
                log_date |-> logDate, content |-> content,
                hours_worked |-> hoursWorked,
                mood |-> IF mood = UNDEF THEN NULL ELSE mood]
    IN  /\ Idle(p)
        /\ IF DailyLogsUniqueViolation(daily_logs, row)
           THEN /\ res' = Result("createLog", userId, NullId, <<>>, 409, {}, "", NoCalls)
                /\ UNCHANGED <<logVars, inflight>>
           ELSE IF DailyLogsForeignKeyViolation(repositories, row)
           THEN /\ res' = Result("createLog", userId, NullId, <<>>, 500, {}, "", NoCalls)
                /\ UNCHANGED <<logVars, inflight>>
           ELSE /\ nextLogId <= MaxLogId
                /\ daily_logs' = daily_logs \cup {row}
                /\ nextLogId' = nextLogId + 1
                /\ inflight' = Begin(p, [op |-> "createLog", pc |-> "query",
                                         user |-> userId, id |-> row.id,
                                         date |-> logDate, out |-> {row}, logs |-> {},
                                         fault |-> ""])
                /\ UNCHANGED <<activity_days, res>>
        /\ UNCHANGED <<repoVars, llmVars, fnVars>>

\* updateLog up to its update statement
UpdateLogUpdate(p, logId, userId, updates) ==
    LET hit == { l \in daily_logs : IsUuid(logId) /\ l.id = logId /\ l.user_id = userId }
    IN  /\ Idle(p)
        /\ ~EmptyUpdate(updates)
        /\ IF hit = {}
           THEN /\ res' = Result("updateLog", userId, logId, <<>>, 404, {}, "", NoCalls)
                /\ UNCHANGED <<logVars, inflight>>
           ELSE LET old  == CHOOSE l \in hit : TRUE
                    data == ApplyLogUpdates(old, updates)
                IN  /\ daily_logs' = (daily_logs \ {old}) \cup {data}
                    /\ inflight' = Begin(p, [op |-> "updateLog", pc |-> "query",
                                             user |-> userId, id |-> logId,
                                             date |-> data.log_date, out |-> {data},
                                             logs |-> {}, fault |-> ""])
                    /\ UNCHANGED <<activity_days, nextLogId, res>>
        /\ UNCHANGED <<repoVars, llmVars, fnVars>>

\* deleteLog up to its select('log_date') statement; date is NullId when no
\* row came back
DeleteLogSelect(p, logId, userId) ==
    LET log == { l \in daily_logs : IsUuid(logId) /\ l.id = logId /\ l.user_id = userId }
    IN  /\ Idle(p)
        /\ IsUuid(logId)
        /\ inflight' = Begin(p, [op |-> "deleteLog", pc |-> "delete",
                                 user |-> userId, id |-> logId,
                                 date |-> IF log = {} THEN NullId
                                          ELSE (CHOOSE l \in log : TRUE).log_date,
                                 out |-> {}, logs |-> {}, fault |-> ""])
        /\ UNCHANGED <<logVars, res, repoVars, llmVars, fnVars>>

\* deleteLog's delete statement; without a selected row there is no recompute
DeleteLogDelete(p) ==
    /\ ~Idle(p)
    /\ inflight[p].pc = "delete"
    /\ daily_logs' = { l \in daily_logs :
                         ~(l.id = inflight[p].id /\ l.user_id = inflight[p].user) }
    /\ IF inflight[p].date = NullId
       THEN /\ inflight' = End(p)
            /\ res' = Result("deleteLog", inflight[p].user, inflight[p].id, <<>>, 200,
                             {}, "", NoCalls)
       ELSE /\ inflight' = [inflight EXCEPT ![p].pc = "query"]
            /\ UNCHANGED res
    /\ UNCHANGED <<activity_days, nextLogId, repoVars, llmVars, fnVars>>

\* updateActivityForDate: the select of the day's rows
RecomputeQuery(p) ==
    /\ ~Idle(p)
    /\ inflight[p].pc = "query"
    /\ inflight' = [inflight EXCEPT
                       ![p].pc = "upsert",
                       ![p].logs = LogsOn(daily_logs, inflight[p].user, inflight[p].date)]
    /\ UNCHANGED <<logVars, res, repoVars, llmVars, fnVars>>

\* updateActivityForDate: the upsert of what the select returned, after
\* which the mutation returns
RecomputeUpsert(p) ==
    /\ ~Idle(p)
    /\ inflight[p].pc = "upsert"
    /\ activity_days' = updateActivityForDate(inflight[p].logs, activity_days,
                                              inflight[p].user, inflight[p].date)
    /\ inflight' = End(p)
    /\ res' = Result(inflight[p].op, inflight[p].user, inflight[p].id, <<>>, 200,
                     inflight[p].out, inflight[p].fault, NoCalls)
    /\ UNCHANGED <<daily_logs, nextLogId, repoVars, llmVars, fnVars>>

\* The datastore failing a statement of updateActivityForDate.  The client
\* library hands a failure back as { data: null, error } or, when
\* it cannot, rejects; res.path names the failure the recompute met.

\* the select comes back { data: null, error }: logs is null and the code
\* goes on to the upsert with logs?.length || 0
RecomputeQueryError(p) ==
    /\ ~Idle(p)
    /\ inflight[p].pc = "query"
    /\ inflight' = [inflight EXCEPT ![p].pc = "upsert",
                                    ![p].logs = {},
                                    ![p].fault = "queryError"]
    /\ UNCHANGED <<logVars, res, repoVars, llmVars, fnVars>>

\* the select rejects: the catch logs it, and the mutation returns
RecomputeQueryThrows(p) ==
    /\ ~Idle(p)
    /\ inflight[p].pc = "query"
    /\ inflight' = End(p)
    /\ res' = Result(inflight[p].op, inflight[p].user, inflight[p].id, <<>>, 200,
                     inflight[p].out, "queryThrows", NoCalls)
    /\ UNCHANGED <<logVars, repoVars, llmVars, fnVars>>

\* the upsert comes back with an error or rejects: it is logged, and the
\* mutation returns
RecomputeUpsertError(p) ==
    /\ ~Idle(p)
    /\ inflight[p].pc = "upsert"
    /\ inflight' = End(p)
    /\ res' = Result(inflight[p].op, inflight[p].user, inflight[p].id, <<>>, 200,
                     inflight[p].out, "upsertError", NoCalls)
    /\ UNCHANGED <<logVars, repoVars, llmVars, fnVars>>

SetHours == { u \in LogUpdates : u.content = UNDEF /\ u.hoursWorked # NoHours }

\* ids a client can name: those of stored rows (an id is learnt from a
\* response) and one that is never issued
IssuedLogIds == { l.id : l \in daily_logs } \cup {MaxLogId + 1}

\* the requests of one user, on any date
RaceUser == "u1"

NextLogRace ==
    \/ \E p \in Requests, logDate \in Dates, hoursWorked \in Hours :
          CreateLogInsert(p, RaceUser, NullId, logDate, "c1", hoursWorked, UNDEF)
    \/ \E p \in Requests, logId \in IssuedLogIds, updates \in SetHours :
          UpdateLogUpdate(p, logId, RaceUser, updates)
    \/ \E p \in Requests, logId \in IssuedLogIds :
          DeleteLogSelect(p, logId, RaceUser)
    \/ \E p \in Requests : DeleteLogDelete(p)
    \/ \E p \in Requests : RecomputeQuery(p)
    \/ \E p \in Requests : RecomputeUpsert(p)

SpecLogRace == Init /\ [][NextLogRace]_vars

\* The daily-log manager serving one request at a time, against a datastore
\* that may fail either statement of the recompute
NextLogFault ==
    \/ \E logDate \in Dates, hoursWorked \in Hours :
          CreateLogInsert("r1", RaceUser, NullId, logDate, "c1", hoursWorked, UNDEF)
    \/ \E logId \in IssuedLogIds, updates \in SetHours :
          UpdateLogUpdate("r1", logId, RaceUser, updates)
    \/ \E logId \in IssuedLogIds : DeleteLogSelect("r1", logId, RaceUser)
    \/ DeleteLogDelete("r1")
    \/ RecomputeQuery("r1")
    \/ RecomputeUpsert("r1")
    \/ RecomputeQueryError("r1")
    \/ RecomputeQueryThrows("r1")
    \/ RecomputeUpsertError("r1")

SpecLogFault == Init /\ [][NextLogFault]_vars

\* The analysis orchestrator with two requests in flight at once.  A request
\* advances either by one datastore statement or by the synchronous code
\* that runs when a statement's result arrives; the provider and the
\* text-generation service answer every request.
Locals(op, pc, userId, githubUrl, id) ==
    [op |-> op, pc |-> pc, user |-> userId, url |-> githubUrl, id |-> id,
     rows |-> {}, failed |-> FALSE]

\* analyzeRepository up to its first await: the cache gate
AnalyzeStart(p, userId, githubUrl) ==
    LET got == cacheGet(cache, cacheKey(githubUrl), now)
    IN  /\ Idle(p)
        /\ cache' = got.cache
        /\ IF CacheHit(got.value, userId)
           THEN /\ res' = Result("analyzeRepository", userId,
                                 (CHOOSE c \in got.value : TRUE).id, githubUrl, 200,
                                 got.value, "cache", NoCalls)
                /\ UNCHANGED inflight
           ELSE /\ inflight' = Begin(p, Locals("analyzeRepository", "lookup",
                                               userId, githubUrl, NullId))
                /\ UNCHANGED res
        /\ UNCHANGED <<repositories, now, ticks, nextRepoId, logVars, llmVars, fnVars>>

\* the stored-record lookup runs in the datastore
AnalyzeLookup(p) ==
    /\ ~Idle(p)
    /\ inflight[p].pc = "lookup"
    /\ inflight' = [inflight EXCEPT
                       ![p].pc = "afterLookup",
                       ![p].rows = AlreadyAnalyzed(repositories, inflight[p].user,
                                                   inflight[p].url)]
    /\ UNCHANGED <<repoVars, logVars, res, llmVars, fnVars>>

\* if (existing) { cacheService.set(...); return existing }; otherwise the
\* fetch, the scan and the generation, up to the insert being sent
AnalyzeAfterLookup(p) ==
    /\ ~Idle(p)
    /\ inflight[p].pc = "afterLookup"
    /\ IF inflight[p].rows # {}
       THEN LET existing == CHOOSE r \in inflight[p].rows : TRUE
            IN  /\ cache' = cacheSet(cache, cacheKey(inflight[p].url), existing,
                                     RepoTtl, now)
                /\ res' = Result("analyzeRepository", inflight[p].user, existing.id,
                                 inflight[p].url, 200, {existing}, "existing",
                                 Calls(0, 0, 0, 1, 0))
                /\ inflight' = End(p)
       ELSE /\ inflight' = [inflight EXCEPT ![p].pc = "insert"]
            /\ UNCHANGED <<cache, res>>
    /\ UNCHANGED <<repositories, now, ticks, nextRepoId, logVars, llmVars, fnVars>>

\* the insert runs in the datastore
AnalyzeInsert(p) ==
    LET githubUrl   == inflight[p].url
        metadata    == MetadataOf(githubUrl)
        scanResults == scanCodebase(TreeOf(githubUrl))
        repo == InsertedRepo(nextRepoId, inflight[p].user, githubUrl, metadata,
                             scanResults,
                             LLMAnalyze(SomeText, metadata, scanResults).value)
    IN  /\ ~Idle(p)
        /\ inflight[p].pc = "insert"
        /\ IF RepositoriesUniqueViolation(repositories, repo)
           THEN /\ inflight' = [inflight EXCEPT ![p].pc = "afterInsert",
                                                ![p].failed = TRUE]
                /\ UNCHANGED <<repositories, nextRepoId>>
           ELSE /\ nextRepoId <= MaxRepoId
                /\ repositories' = repositories \cup {repo}
                /\ nextRepoId' = nextRepoId + 1
                /\ inflight' = [inflight EXCEPT ![p].pc = "afterInsert",
                                                ![p].id = repo.id,
                                                ![p].rows = {repo}]
        /\ UNCHANGED <<cache, now, ticks, logVars, res, llmVars, fnVars>>

\* if (error) throw new AppError(500, ...); cacheService.set(...); return repo
AnalyzeAfterInsert(p) ==
    /\ ~Idle(p)
    /\ inflight[p].pc = "afterInsert"
    /\ IF inflight[p].failed
       THEN /\ res' = Result("analyzeRepository", inflight[p].user, NullId,
                             inflight[p].url, 500, {}, "fresh", Calls(1, 1, 4, 1, 1))
            /\ UNCHANGED cache
       ELSE /\ cache' = cacheSet(cache, cacheKey(inflight[p].url),
                                 CHOOSE r \in inflight[p].rows : TRUE, RepoTtl, now)
            /\ res' = Result("analyzeRepository", inflight[p].user, inflight[p].id,
                             inflight[p].url, 200, inflight[p].rows, "fresh",
                             Calls(1, 1, 4, 1, 1))
    /\ inflight' = End(p)
    /\ UNCHANGED <<repositories, now, ticks, nextRepoId, logVars, llmVars, fnVars>>

\* deleteRepository up to its select('github_url') statement
DeleteRepositorySelect(p, repoId, userId) ==
    /\ Idle(p)
    /\ IsUuid(repoId)
    /\ inflight' = Begin(p, [Locals("deleteRepository", "delete", userId, <<>>, repoId)
                               EXCEPT !.rows = { r \in repositories :
                                                   r.id = repoId /\ r.user_id = userId }])
    /\ UNCHANGED <<repoVars, logVars, res, llmVars, fnVars>>

\* the delete statement runs in the datastore
DeleteRepositoryDelete(p) ==
    /\ ~Idle(p)
    /\ inflight[p].pc = "delete"
    /\ LET gone == { r \in repositories :
                       r.id = inflight[p].id /\ r.user_id = inflight[p].user }
       IN  /\ repositories' = repositories \ gone
           /\ daily_logs' = OnDeleteSetNull(daily_logs, { r.id : r \in gone })
    /\ inflight' = [inflight EXCEPT ![p].pc = "afterDelete"]
    /\ UNCHANGED <<cache, now, ticks, nextRepoId, activity_days, nextLogId, res,
                   llmVars, fnVars>>

\* if (repo) cacheService.delete(`repo:${repo.github_url}`)
DeleteRepositoryAfter(p) ==
    /\ ~Idle(p)
    /\ inflight[p].pc = "afterDelete"
    /\ cache' = IF inflight[p].rows # {}
                THEN cacheDelete(cache,
                         cacheKey((CHOOSE r \in inflight[p].rows : TRUE).github_url))
                ELSE cache
    /\ res' = Result("deleteRepository", inflight[p].user, inflight[p].id,
                     IF inflight[p].rows # {}
                     THEN (CHOOSE r \in inflight[p].rows : TRUE).github_url ELSE <<>>,
                     200, {}, "", NoCalls)
    /\ inflight' = End(p)
    /\ UNCHANGED <<repositories, now, ticks, nextRepoId, logVars, llmVars, fnVars>>

\* the clock moves while requests are in flight
AdvanceInFlight ==
    \E d \in TickSteps :
        /\ ticks < MaxTicks
        /\ ticks' = ticks + 1
        /\ now' = now + d
        /\ UNCHANGED <<repositories, cache, nextRepoId, logVars, res, llmVars,
                       fnVars, inflight>>

\* overlapping analyses only
NextAnalyzeRace ==
    \/ \E p \in Requests, userId \in Users, githubUrl \in Urls :
          AnalyzeStart(p, userId, githubUrl)
    \/ \E p \in Requests : AnalyzeLookup(p)
    \/ \E p \in Requests : AnalyzeAfterLookup(p)
    \/ \E p \in Requests : AnalyzeInsert(p)
    \/ \E p \in Requests : AnalyzeAfterInsert(p)

SpecAnalyzeRace == Init /\ [][NextAnalyzeRace]_vars

\* ids a client can name: those of stored rows (an id is learnt from a
\* response) and one that is never issued
IssuedRepoIds == { r.id : r \in repositories } \cup {MaxRepoId + 1}

\* analyses and deletions of one URL's record overlapping, the clock moving
RaceUrl == CHOOSE u \in Urls : u[3] = "x"

NextRepoRace ==
    \/ \E p \in Requests, userId \in Users : AnalyzeStart(p, userId, RaceUrl)
    \/ \E p \in Requests : AnalyzeLookup(p)
    \/ \E p \in Requests : AnalyzeAfterLookup(p)
    \/ \E p \in Requests : AnalyzeInsert(p)
    \/ \E p \in Requests : AnalyzeAfterInsert(p)
    \/ \E p \in Requests, repoId \in IssuedRepoIds, userId \in Users :
          DeleteRepositorySelect(p, repoId, userId)
    \/ \E p \in Requests : DeleteRepositoryDelete(p)
    \/ \E p \in Requests : DeleteRepositoryAfter(p)
    \/ AdvanceInFlight

SpecRepoRace == Init /\ [][NextRepoRace]_vars

----------------------------------------------------------------------------
(* Properties of the daily-log manager *)

\* a step that is one completed service call named op
Called(op) == res'.n # res.n /\ res'.op = op

RECURSIVE HourSum(_)
HourSum(S) == IF S = {} THEN 0
              ELSE LET l == CHOOSE x \in S : TRUE IN l.hours_worked + HourSum(S \ {l})

\* C1: after completed createLog / updateLog / deleteLog calls, every
\* (user, date) one of them touched has an aggregate whose log_count is the
\* number of that user's rows on that date and whose total_hours is the sum
\* of their hours_worked.
C1_AggregateIsCountAndSum ==
    /\ \A a \in activity_days :
          /\ a.log_count = Cardinality(LogsOn(daily_logs, a.user_id, a.activity_date))
          /\ a.total_hours = HourSum(LogsOn(daily_logs, a.user_id, a.activity_date))
    /\ \A l \in daily_logs :
          \E a \in activity_days : a.user_id = l.user_id /\ a.activity_date = l.log_date

\* a day that held two rows, one of which has just been deleted
C1_Witness ==
    /\ res.op = "deleteLog"
    /\ res.status = 200
    /\ nextLogId > 2
    /\ \E a \in activity_days :
          /\ a.user_id = res.user
          /\ a.log_count = 1
          /\ a.total_hours > 0

SameTriple(l, userId, repoId, date) ==
    l.user_id = userId /\ l.repo_id = repoId /\ l.log_date = date

\* C4: createLog for a (user, repository-or-none, date) that already has an
\* entry fails with 409 and adds no row, also when the repository is absent
\* on both; for another repository on the same date it succeeds and adds a row.
C4_DuplicateIsConflict ==
    [][ Called("createLog") =>
          LET dup == \E l \in daily_logs :
                        SameTriple(l, res'.user, res'.req[1], res'.req[2])
              known == res'.req[1] = NullId
                          \/ \E r \in repositories : r.id = res'.req[1]
          IN  /\ dup => (res'.status = 409 /\ daily_logs' = daily_logs)
              /\ (~dup /\ known) =>
                    /\ res'.status = 200
                    /\ Cardinality(daily_logs') = Cardinality(daily_logs) + 1 ]_vars

Owns(rows, id, userId) == \E r \in rows : r.id = id /\ r.user_id = userId

\* C9: updateLog and deleteLog on an id that does not exist or belongs to
\* another user fail with 404 and change no log row and no aggregate.
C9_MissingLogIsNotFound ==
    [][ ((Called("updateLog") \/ Called("deleteLog"))
            /\ ~Owns(daily_logs, res'.id, res'.user)) =>
          /\ res'.status = 404
          /\ daily_logs' = daily_logs
          /\ activity_days' = activity_days ]_vars

NotOf(rows, userId) == { r \in rows : r.user_id # userId }

\* C6: a repository or log service call made with caller id u returns,
\* updates and deletes only rows whose user_id is u; the repository rows, log
\* rows and aggregates of every other user are left unchanged.
C6_CallerOwnsEveryRowTouched ==
    [][ (res'.n # res.n) =>
          /\ \A r \in res'.out : r.user_id = res'.user
          /\ NotOf(repositories', res'.user) = NotOf(repositories, res'.user)
          /\ NotOf(daily_logs', res'.user) = NotOf(daily_logs, res'.user)
          /\ NotOf(activity_days', res'.user) = NotOf(activity_days, res'.user) ]_vars

----------------------------------------------------------------------------
(* Properties of the analysis orchestrator *)

\* C2: when the store holds a record for (u, U), analyzeRepository(u, U)
\* succeeds, returns exactly that stored record and makes no call to the
\* provider client or to the insight generator and inserts nothing, whatever
\* the state of the cache entry for U.
C2_SecondAnalysisShortCircuits ==
    [][ Called("analyzeRepository") =>
          \A r \in repositories :
              (r.user_id = res'.user /\ r.github_url = res'.url) =>
                  /\ res'.status = 200
                  /\ res'.out = {r}
                  /\ res'.calls.metadata = 0
                  /\ res'.calls.tree = 0
                  /\ res'.calls.llm = 0
                  /\ res'.calls.insert = 0
                  /\ repositories' = repositories ]_vars

\* cold cache, warm database: the clock has advanced, the call found no
\* usable cache entry and returned the stored row from the lookup
C2_Witness ==
    /\ res.op = "analyzeRepository"
    /\ res.path = "existing"
    /\ res.status = 200
    /\ ticks > 0
    /\ res.out \subseteq repositories
    /\ res.out # {}

\* C5: analyzeRepository(u, U) returns only records owned by u; when the
\* cache holds under U's key an unexpired entry owned by another user the call
\* does not answer from the cache and goes on to the stored-record lookup.
C5_CrossOwnerEntryIsMiss ==
    [][ Called("analyzeRepository") =>
          LET key == cacheKey(res'.url)
              foreign == /\ key \in DOMAIN cache
                         /\ ~Expired(cache[key], now)
                         /\ cache[key].value.user_id # res'.user
          IN  /\ \A r \in res'.out : r.user_id = res'.user
              /\ foreign => (res'.path # "cache" /\ res'.calls.lookup = 1) ]_vars

\* a call by one user that went to the lookup while the cache held another
\* user's unexpired entry under the same key
C5_Witness ==
    /\ res.op = "analyzeRepository"
    /\ res.calls.lookup = 1
    /\ cacheKey(res.url) \in DOMAIN cache
    /\ ~Expired(cache[cacheKey(res.url)], now)
    /\ cache[cacheKey(res.url)].value.user_id # res.user

\* C10: a deleteRepository(id, u) that deletes a stored record leaves no cache
\* entry under that record's URL key; an analyzeRepository(u, U) made while
\* the store holds no record for (u, U) never answers from the cache or the
\* lookup, calls the provider for metadata and tree, and when it succeeds it
\* has run the generator and inserted a row with a newly issued id.
C10_DeleteInvalidatesCache ==
    [][ /\ Called("deleteRepository") =>
              \A r \in repositories :
                  (r.id = res'.id /\ r.user_id = res'.user) =>
                      /\ res'.status = 200
                      /\ r \notin repositories'
                      /\ cacheKey(r.github_url) \notin DOMAIN cache'
        /\ (Called("analyzeRepository")
              /\ AlreadyAnalyzed(repositories, res'.user, res'.url) = {}) =>
              /\ res'.path = "fresh"
              /\ res'.calls.metadata > 0
              /\ res'.calls.tree > 0
              /\ res'.status = 200 =>
                    /\ res'.calls.llm = 4
                    /\ res'.calls.insert = 1
                    /\ \A r \in res'.out : r.id = nextRepoId /\ r \in repositories' ]_vars

\* the owner has just deleted a stored record before its cache entry could
\* expire, and neither the row nor a cache entry for its URL is left
C10_Witness ==
    /\ res.op = "deleteRepository"
    /\ res.status = 200
    /\ res.url # <<>>
    /\ ticks = 0
    /\ cacheKey(res.url) \notin DOMAIN cache
    /\ \A r \in repositories : r.github_url # res.url

\* C3: analyzeRepository(B, U) made while another user A holds a record for
\* U and B holds none succeeds, adds one record owned by B for U and leaves
\* A's record as it was.
C3_TwoUsersTwoRecords ==
    [][ (Called("analyzeRepository")
            /\ AlreadyAnalyzed(repositories, res'.user, res'.url) = {}
            /\ \E a \in repositories : a.github_url = res'.url) =>
          /\ res'.status = 200
          /\ repositories \subseteq repositories'
          /\ \E b \in repositories' :
                b.user_id = res'.user /\ b.github_url = res'.url ]_vars

\* the provider answered every request of one fetch with a
AllOf(answers, a) == \A i \in DOMAIN answers : answers[i] = a

TypedStatus(a) == IF a = "404" THEN 404 ELSE IF a = "403" THEN 403 ELSE 500

\* C7: when the provider fails the metadata fetch or the tree fetch of an
\* analyzeRepository call, the call fails with 404 for a provider 404, 403 for
\* a provider 403 and 500 for a provider 500 or a network error, no
\* repository row is inserted and the cache entry of that URL is not written.
C7_FetchFailureIsTyped ==
    [][ (Called("analyzeRepository") /\ res'.path = "fresh") =>
          \A a \in {"404", "403", "500", "net"} :
              (\/ AllOf(res'.req[1], a)
               \/ AllOf(res'.req[1], "200") /\ AllOf(res'.req[2], a)) =>
                  /\ res'.status = TypedStatus(a)
                  /\ repositories' = repositories
                  /\ cacheKey(res'.url) \in DOMAIN cache' =>
                        /\ cacheKey(res'.url) \in DOMAIN cache
                        /\ cache'[cacheKey(res'.url)] = cache[cacheKey(res'.url)] ]_vars

\* the metadata fetch of the call got answer a throughout
MetadataAnswered(r, a) == AllOf(r.req[1], a)

\* the metadata fetch succeeded and the tree fetch got answer a throughout
TreeAnswered(r, a) == AllOf(r.req[1], "200") /\ AllOf(r.req[2], a)

\* C17: when the provider answers a fetch of analyzeRepository with 403 and
\* x-ratelimit-remaining = 0, the call fails with 429, not with 403 or 500.
C17_RateLimitIs429 ==
    [][ (Called("analyzeRepository") /\ res'.path = "fresh"
            /\ (MetadataAnswered(res', "403rl") \/ TreeAnswered(res', "403rl"))) =>
          res'.status = 429 ]_vars

\* C18: a fetch the provider answers with 404, 403 or a rate-limit 403 is
\* not retried: the provider is called once for it and nothing is slept; a
\* fetch answered 500 first and 200 next is retried and succeeds.
C18_NoRetryOnClientError ==
    [][ (Called("analyzeRepository") /\ res'.path = "fresh") =>
          /\ \A a \in {"404", "403", "403rl"} :
                /\ MetadataAnswered(res', a) =>
                      /\ res'.calls.metadata = 1
                      /\ retryWithBackoff(Gets(res'.req[1])).slept = << >>
                /\ TreeAnswered(res', a) =>
                      /\ res'.calls.tree = 1
                      /\ retryWithBackoff(Gets(res'.req[2])).slept = << >>
          /\ (res'.req[1] = <<"500", "200", "200">>) => res'.calls.metadata = 2 ]_vars

----------------------------------------------------------------------------
(* Properties of the insight generator *)

HasField(v) == v # UNDEF /\ v # NULL

\* the text is a JSON array whose every element carries category, title and
\* description
IsSuggestionList(content) ==
    LET parsed == JsonParse(content)
    IN  /\ parsed.ok
        /\ parsed.array
        /\ \A i \in 1..Len(parsed.items) :
              /\ HasField(parsed.items[i].category)
              /\ HasField(parsed.items[i].title)
              /\ HasField(parsed.items[i].description)

\* C8: for every combination of replies to the four prompts (request
\* rejected, no content, blank text, text, text that is not the structured
\* list asked for) LLMService.analyzeRepository returns without raising, and
\* each insight is its own reply's trimmed text (for the improvements: the
\* formatted lines of the parsed list) when that reply is usable and its own
\* fallback otherwise, whatever the other three replies are.
C8_EachInsightFallsBackAlone ==
    \A o \in llmOut :
        LET r  == llmIn.replies
            md == MetadataOf(llmIn.url)
            sc == scanCodebase(TreeOf(llmIn.url))
            summary      == ContentOf(r.summary)
            vibe         == ContentOf(r.vibe)
            difficulty   == ContentOf(r.difficulty)
            improvements == ContentOf(r.improvements)
            items        == JsonParse(improvements).items
        IN  /\ ~o.raised
            /\ o.value.summary =
                  IF summary # <<>> THEN summary ELSE getFallbackSummary(md)
            /\ o.value.vibe =
                  IF vibe # <<>> THEN vibe ELSE getFallbackVibe(sc)
            /\ o.value.difficulty =
                  IF difficulty # <<>> THEN difficulty ELSE getFallbackDifficulty(sc)
            /\ o.value.improvements =
                  IF improvements # <<>> /\ IsSuggestionList(improvements)
                  THEN [i \in 1..Len(items) |-> FormatImprovement(items[i])]
                  ELSE getFallbackImprovements

\* The fallback analysis alone: the four text-generation calls all fail, in
\* one of the three ways a call can fail, for every complexity score
Scores == 0..100

FailedReplies ==
    { [summary |-> f, vibe |-> f, difficulty |-> f, improvements |-> f] :
        f \in { Reply("throw", <<>>), Reply("nochoice", <<>>), Reply("text", <<WS>>) } }

InitFallback ==
    /\ StoreEmpty
    /\ arg \in [fn : {"fallback"}, score : Scores, url : Urls, replies : FailedReplies]
    /\ ret = {}
    /\ inflight = << >>

FallbackAnalysis ==
    /\ arg.fn = "fallback"
    /\ ret = {}
    /\ ret' = { LLMAnalyze(arg.replies, MetadataOf(arg.url),
                           [totalFiles |-> 0, totalDirectories |-> 0,
                            complexityScore |-> arg.score]).value }
    /\ UNCHANGED <<repoVars, logVars, res, llmVars, arg, inflight>>

NextFallback == FallbackAnalysis

SpecFallback == InitFallback /\ [][NextFallback]_vars

\* The activity reports.  u1 has, on each day of HistoryDays, no aggregate, an
\* active day (one log) or an emptied day (its log was deleted); u2 is active
\* on the last two days.  today and the side of UTC the server's time zone
\* lies on are kept in arg.
HistoryDays == 0..7
Todays      == {6, 7}

DayStates == [HistoryDays -> {"none", "active", "emptied"}]

LogOn(id, userId, date) ==
    [id |-> id, user_id |-> userId, repo_id |-> NullId, log_date |-> date,
     content |-> "c1", hours_worked |-> 2, mood |-> NULL]

AggregateOn(userId, date, logs) ==
    [user_id |-> userId, activity_date |-> date,
     log_count |-> Cardinality(LogsOn(logs, userId, date)),
     total_hours |-> SumHours(LogsOn(logs, userId, date)),
     is_active |-> LogsOn(logs, userId, date) # {}]

HistoryLogs(h) ==
    { LogOn(d + 1, "u1", d) : d \in { e \in HistoryDays : h[e] = "active" } }
        \cup { LogOn(d + 10, "u2", d) : d \in Todays }

InitActivity ==
    /\ repositories = {}
    /\ cache = << >>
    /\ now = 0
    /\ ticks = 0
    /\ nextRepoId = 1
    /\ nextLogId = 20
    /\ res = NoResult
    /\ llmIn = [replies |-> AllThrow, url |-> CHOOSE u \in Urls : TRUE]
    /\ llmOut = {}
    /\ ret = {}
    /\ inflight = << >>
    /\ arg \in [fn : {"today"}, today : Todays, west : BOOLEAN]
    /\ \E h \in DayStates :
          /\ daily_logs = HistoryLogs(h)
          /\ activity_days =
                { AggregateOn("u1", d, daily_logs) :
                    d \in { e \in HistoryDays : h[e] # "none" } }
                  \cup { AggregateOn("u2", d, daily_logs) : d \in Todays }

CalculateStreak ==
    /\ arg.fn = "today"
    /\ \E userId \in Users : calculateStreak(userId, arg.today, arg.west)

GetProductivityMetrics ==
    /\ arg.fn = "today"
    /\ \E userId \in Users : getProductivityMetrics(userId, "week", arg.today)

NextActivity ==
    \/ CalculateStreak
    \/ GetProductivityMetrics

SpecActivity == InitActivity /\ [][NextActivity]_vars

----------------------------------------------------------------------------
(* Properties of the scanner *)

\* C11: for every file tree, the empty one included, scanCodebase returns an
\* integer complexityScore between 0 and 100.
C11_ScoreWithinRange ==
    (arg.fn = "scanCodebase") =>
        \A r \in ret : r.complexityScore \in 0..100

\* the largest tree has been scanned and scored at the top of the range
C11_Witness ==
    /\ arg.fn = "scanCodebase"
    /\ arg.fileTree.files >= 1000
    /\ \E r \in ret : r.complexityScore = 100

\* C12: scanning the empty file tree gives complexityScore 18 = 5 + 5 + 5 + 0 + 3.
C12_EmptyTreeScores18 ==
    (arg.fn = "scanCodebase" /\ arg.fileTree = EmptyTree) =>
        \A r \in ret : r.complexityScore = 18

VibeCategories ==
    { <<"Enterprise">>, <<"Startup MVP">>, <<"Open Source Library">>,
      <<"Learning Project">>, <<"Experimental">>, <<"Personal Tool">>,
      <<"Portfolio Project">>, <<"Boilerplate">> }

DifficultyCategories ==
    { <<"Beginner">>, <<"Intermediate">>, <<"Advanced">>, <<"Expert">> }

\* C19: on every stored repository record the vibe classification is one of
\* the eight vibe categories and the difficulty level one of the four
\* difficulty categories, whatever text the generation service returned.
C19_StoredCategoriesAreClosed ==
    \A r \in repositories :
        /\ r.vibe_classification \in VibeCategories
        /\ r.difficulty_level \in DifficultyCategories

\* C20: when the text-generation calls fail, for every complexity score s in
\* 0..100 the analysis has vibe Learning Project (s < 30), Personal Tool
\* (30 <= s < 50), Open Source Library (50 <= s < 70) or Enterprise, and
\* difficulty Beginner (s < 25), Intermediate (25 <= s < 50), Advanced
\* (50 <= s < 75) or Expert.
C20_FallbackBands ==
    (arg.fn = "fallback") =>
        \A a \in ret :
            /\ a.vibe = IF arg.score < 30 THEN <<"Learning Project">>
                        ELSE IF arg.score < 50 THEN <<"Personal Tool">>
                        ELSE IF arg.score < 70 THEN <<"Open Source Library">>
                        ELSE <<"Enterprise">>
            /\ a.difficulty = IF arg.score < 25 THEN <<"Beginner">>
                              ELSE IF arg.score < 50 THEN <<"Intermediate">>
                              ELSE IF arg.score < 75 THEN <<"Advanced">>
                              ELSE <<"Expert">>

\* the fallback analysis was produced for a score on a band edge
C20_Witness ==
    /\ arg.fn = "fallback"
    /\ arg.score = 50
    /\ \E a \in ret : a.vibe = <<"Open Source Library">> /\ a.difficulty = <<"Advanced">>

----------------------------------------------------------------------------
(* Properties of the activity reports *)

\* the dates on which the user has an aggregate with is_active = true
ActiveSet(userId) ==
    { a.activity_date : a \in { b \in activity_days : b.user_id = userId /\ b.is_active } }

\* the largest k such that day, day-1, ..., day-(k-1) are all in A
RunEndingAt(A, day) ==
    CHOOSE k \in 0..Cardinality(A) :
        /\ \A j \in 0..(k - 1) : (day - j) \in A
        /\ (day - k) \notin A

\* the length of the longest run of consecutive days in A
LongestRun(A) ==
    IF A = {} THEN 0
    ELSE CHOOSE k \in 1..Cardinality(A) :
            /\ \E d \in A : RunEndingAt(A, d) = k
            /\ \A d \in A : RunEndingAt(A, d) <= k

\* C13: whatever days the user is active on, before or after today,
\* calculateStreak returns as currentStreak the largest k such that today,
\* today-1, ..., today-(k-1) are all active days (0 when today is not active).
C13_CurrentStreakEndsToday ==
    (res.op = "calculateStreak") =>
        \A r \in res.out :
            r.currentStreak = RunEndingAt(ActiveSet(res.user), arg.today)

\* C14: for a non-empty set of active days calculateStreak returns as
\* longestStreak the length of the longest run of active days that are
\* pairwise one day apart, over the whole history.
C14_LongestStreakIsLongestRun ==
    (res.op = "calculateStreak" /\ ActiveSet(res.user) # {}) =>
        \A r \in res.out : r.longestStreak = LongestRun(ActiveSet(res.user))

\* two separate runs of three days with a gap between them give 3
C14_Witness ==
    /\ res.op = "calculateStreak"
    /\ ActiveSet(res.user) = {1, 2, 3, 5, 6, 7}
    /\ \E r \in res.out : r.longestStreak = 3

\* C15: for a user with no active day, also one whose aggregates all have
\* is_active = false because every log was deleted, calculateStreak returns
\* currentStreak 0, longestStreak 0 and lastActiveDate null.
C15_NoActiveDayNoStreak ==
    (res.op = "calculateStreak" /\ ActiveSet(res.user) = {}) =>
        res.out = { [currentStreak |-> 0, longestStreak |-> 0,
                     lastActiveDate |-> NULL] }

\* the user's only aggregates are days whose logs were all deleted
C15_Witness ==
    /\ res.op = "calculateStreak"
    /\ ActiveSet(res.user) = {}
    /\ \E a \in activity_days : a.user_id = res.user /\ ~a.is_active
    /\ \E r \in res.out : r.currentStreak = 0 /\ r.longestStreak = 0

\* the user's aggregates dated within the seven days that end today
LastSevenDays(userId, today) ==
    { a \in activity_days : /\ a.user_id = userId
                            /\ a.activity_date >= today - 6
                            /\ a.activity_date <= today }

\* C16: getProductivityMetrics(u, 'week') sums exactly the aggregates dated
\* today-6 .. today, seven calendar days with today, and none outside.
C16_WeekIsSevenDays ==
    (res.op = "getProductivityMetrics") =>
        \A r \in res.out :
            /\ r.totalLogs = SumOf(LastSevenDays(res.user, arg.today), "log_count")
            /\ r.totalHours = SumOf(LastSevenDays(res.user, arg.today), "total_hours")
            /\ r.activeDays =
                  Cardinality({ a \in LastSevenDays(res.user, arg.today) : a.is_active })

----------------------------------------------------------------------------
(* Properties of the cache as the orchestrator leaves it *)

\* C21: right after a successful analyzeRepository(u, U), on any of its three
\* paths, the cache holds under U's key an unexpired entry whose value is the
\* returned record; on the already-analysed and fresh paths the entry expires
\* 86400 seconds after the call.
C21_SuccessPopulatesCache ==
    [][ (Called("analyzeRepository") /\ res'.status = 200) =>
          LET key == cacheKey(res'.url)
          IN  /\ key \in DOMAIN cache'
              /\ ~Expired(cache'[key], now')
              /\ res'.out = {cache'[key].value}
              /\ res'.path \in {"existing", "fresh"} =>
                    cache'[key].expiresAt = now' + 86400 * 1000 ]_vars

\* the entry had expired, the stored row was found by the lookup and cached
\* again for a day from the later time
C21_Witness ==
    /\ res.op = "analyzeRepository"
    /\ res.status = 200
    /\ res.path = "existing"
    /\ now > 86400 * 1000
    /\ cacheKey(res.url) \in DOMAIN cache
    /\ cache[cacheKey(res.url)].expiresAt = now + 86400 * 1000
    /\ res.out = {cache[cacheKey(res.url)].value}

----------------------------------------------------------------------------
(* Properties of the retry loop *)

\* the invocations of fn that succeed, by their position
SucceedingAttempts(answers) == { i \in 1..Len(answers) : ClientGet(answers[i]).ok }

\* what the claim says of a finished call r on the answers given
RetryOutcomeAsClaimed(r, answers) ==
    LET good  == SucceedingAttempts(answers)
        first == CHOOSE i \in good : \A j \in good : i <= j
    IN  /\ r.calls <= 3
        /\ IF good # {}
           THEN /\ r.ok
                /\ r.calls = first
                /\ r.slept = SubSeq(<<1000, 2000>>, 1, first - 1)
           ELSE /\ ~r.ok
                /\ r.calls = 3
                /\ r.error = ClientGet(answers[3]).error
                /\ r.slept = <<1000, 2000>>

\* C22: retryWithBackoff always terminates; it invokes fn at most 3 times,
\* returns at the first success without invoking fn again, sleeps 1000 ms
\* and then 2000 ms between failed attempts, and after the third failure
\* rethrows that attempt's error without sleeping.  The loop taken step by
\* step gives what retryWithBackoff gives as one function.
C22_RetryTerminates ==
    /\ [](\A r \in ret : /\ RetryOutcomeAsClaimed(r, arg.answers)
                         /\ r = retryWithBackoff(Gets(arg.answers)))
    /\ <>(ret # {} /\ inflight = << >>)

\* three failures: fn was invoked three times, 1000 ms and 2000 ms were
\* slept, and the third error came out
C22_Witness ==
    /\ arg.fn = "retryWithBackoff"
    /\ arg.answers = <<"500", "404", "403">>
    /\ \E r \in ret : ~r.ok /\ r.calls = 3 /\ r.error = AxiosError(403)
                      /\ r.slept = <<1000, 2000>>

----------------------------------------------------------------------------
(* Properties of the activity aggregates *)

\* the aggregates kept for one (user, date)
AggregatesOf(acts, userId, date) ==
    { a \in acts : a.user_id = userId /\ a.activity_date = date }

\* C23: in every reachable state there is at most one aggregate per
\* (user, date), each with is_active = (log_count > 0) and total_hours >= 0;
\* when a deleteLog removes the last log row of a (user, date) the aggregate
\* of that day is still there afterwards, with log_count 0, total_hours 0
\* and is_active false.
C23_OneAggregatePerDay ==
    /\ [](\A a \in activity_days :
            /\ AggregatesOf(activity_days, a.user_id, a.activity_date) = {a}
            /\ a.is_active = (a.log_count > 0)
            /\ a.total_hours >= 0)
    /\ [][ Called("deleteLog") =>
             \A l \in daily_logs \ daily_logs' :
                 (LogsOn(daily_logs', l.user_id, l.log_date) = {}) =>
                     AggregatesOf(activity_days', l.user_id, l.log_date) =
                         { [user_id |-> l.user_id, activity_date |-> l.log_date,
                            log_count |-> 0, total_hours |-> 0,
                            is_active |-> FALSE] } ]_vars

\* both logs of a day were deleted one after the other; its aggregate is
\* left, emptied
C23_Witness ==
    /\ res.op = "deleteLog"
    /\ res.status = 200
    /\ daily_logs = {}
    /\ nextLogId > 2
    /\ \E a \in activity_days :
          a.user_id = res.user /\ a.log_count = 0 /\ a.total_hours = 0 /\ ~a.is_active

----------------------------------------------------------------------------
(* Properties of the cache *)

\* the entry's expiry time has passed at time t
ExpiryPassed(entry, t) == entry.expiresAt < t

\* C24: get and has never report an entry whose expiry time has passed: such
\* a read answers null / false and removes the entry, whether or not the
\* sweep has run; an entry whose expiry time has not passed is reported and
\* left alone; cleanup removes every entry whose expiry time has passed and
\* keeps every other entry as it was.
C24_ExpiredEntryIsNeverReported ==
    [][ /\ (Called("cacheGet") \/ Called("cacheHas")) =>
              LET key == cacheKey(res'.url)
                  nothing == IF res'.op = "cacheGet" THEN {} ELSE {FALSE}
              IN  IF key \in DOMAIN cache /\ ExpiryPassed(cache[key], now)
                  THEN /\ res'.out = nothing
                       /\ key \notin DOMAIN cache'
                  ELSE /\ cache' = cache
                       /\ key \in DOMAIN cache =>
                             res'.out = IF res'.op = "cacheGet"
                                        THEN {cache[key].value} ELSE {TRUE}
                       /\ key \notin DOMAIN cache => res'.out = nothing
        /\ Called("cacheCleanup") =>
              /\ DOMAIN cache' =
                    { k \in DOMAIN cache : ~ExpiryPassed(cache[k], now) }
              /\ \A k \in DOMAIN cache' : cache'[k] = cache[k] ]_vars

\* a get found an entry past its expiry, which no sweep had removed,
\* answered null and evicted it, while the other key's entry is still held
C24_Witness ==
    /\ res.op = "cacheGet"
    /\ res.path = "expired"
    /\ res.out = {}
    /\ cacheKey(res.url) \notin DOMAIN cache
    /\ DOMAIN cache # {}

----------------------------------------------------------------------------
(* Properties of requests in flight together *)

\* C25: when log mutations on the same (user, date) ran as concurrent
\* requests with their datastore statements interleaved, then once all of
\* them have completed every aggregate equals the count and the hour sum of
\* the log rows then present on its (user, date).
C25_AggregateAfterConcurrentMutations ==
    (inflight = << >>) =>
        \A a \in activity_days :
            /\ a.log_count = Cardinality(LogsOn(daily_logs, a.user_id, a.activity_date))
            /\ a.total_hours = HourSum(LogsOn(daily_logs, a.user_id, a.activity_date))

\* C26: when analyzeRepository(u, U) and deleteRepository of the same
\* record ran as concurrent requests with their steps interleaved, then once
\* both have completed the cache holds under U's key no unexpired entry whose
\* record is absent from the store.
C26_NoCachedRecordAfterDelete ==
    (inflight = << >>) =>
        \A key \in DOMAIN cache :
            ~Expired(cache[key], now) =>
                \E r \in repositories : r.id = cache[key].value.id

\* the requests that return in this step
Returning == DOMAIN inflight \ DOMAIN inflight'

\* C27: when analyzeRepository calls for the same URL overlap before either
\* has persisted, the store never holds more than one row for that URL; the
\* call whose insert is rejected fails with 500 and leaves the cache as it
\* was; and once the calls have completed, the entry the cache holds under
\* the URL's key is the row that was inserted.
C27_OverlappingAnalysesInsertOnce ==
    /\ [](\A a \in repositories, b \in repositories :
             a.github_url = b.github_url => a = b)
    /\ [][ \A p \in Returning :
             (inflight[p].pc = "afterInsert" /\ inflight[p].failed) =>
                 /\ res'.op = "analyzeRepository"
                 /\ res'.status = 500
                 /\ cache' = cache ]_vars
    /\ []((inflight = << >>) =>
             \A githubUrl \in Urls :
                 cacheKey(githubUrl) \in DOMAIN cache =>
                     /\ cache[cacheKey(githubUrl)].value \in repositories
                     /\ cache[cacheKey(githubUrl)].value.github_url = githubUrl)

\* a user's call failed with 500 although that same user's row for the URL
\* is stored, which only an overlapping call of theirs can have inserted;
\* the cache holds that row
C27_Witness ==
    /\ inflight = << >>
    /\ res.op = "analyzeRepository"
    /\ res.status = 500
    /\ \E r \in repositories :
          /\ r.user_id = res.user
          /\ r.github_url = res.url
          /\ cacheKey(res.url) \in DOMAIN cache
          /\ cache[cacheKey(res.url)].value = r

\* C28: after any sequence of completed analyzeRepository, updateRepository
\* and deleteRepository calls every unexpired cache entry equals the stored
\* row of its URL; an analyzeRepository(u, U) that follows an
\* updateRepository of u's record for U returns the record as updated.
C28_CacheEqualsStoredRow ==
    /\ [](\A githubUrl \in Urls :
             LET key == cacheKey(githubUrl)
             IN  (key \in DOMAIN cache /\ ~Expired(cache[key], now)) =>
                     /\ cache[key].value \in repositories
                     /\ cache[key].value.github_url = githubUrl)
    /\ [][ (Called("analyzeRepository") /\ res'.status = 200) =>
             /\ res'.out \subseteq repositories'
             /\ \A r \in repositories :
                   (r.user_id = res'.user /\ r.github_url = res'.url) =>
                       res'.out = {r} ]_vars

\* the record was analysed, cached, then tagged by its owner, and the
\* owner's next analysis returned it with the tags
C28_Witness ==
    /\ res.op = "analyzeRepository"
    /\ res.status = 200
    /\ ticks = 0
    /\ \E r \in res.out : r.tags = <<"t1">> /\ r \in repositories
    /\ cacheKey(res.url) \in DOMAIN cache
    /\ cache[cacheKey(res.url)].value.tags = <<"t1">>

----------------------------------------------------------------------------
(* Properties of a failing recompute *)

RecomputeFailures == {"queryError", "queryThrows", "upsertError"}

\* C29: when the aggregate recompute fails, at its select or at its upsert,
\* after a log row was created, updated or deleted, the mutation still
\* returns success, the row change is in the store, and the aggregate of that
\* (user, date) is what it was before.
C29_FailedRecomputeKeepsAggregate ==
    [][ \A p \in Returning :
          (res'.path \in RecomputeFailures) =>
              /\ res'.status = 200
              /\ daily_logs' = daily_logs
              /\ inflight[p].op \in {"createLog", "updateLog"} =>
                    inflight[p].out \subseteq daily_logs'
              /\ inflight[p].op = "deleteLog" =>
                    \A l \in daily_logs' : l.id # inflight[p].id
              /\ AggregatesOf(activity_days', inflight[p].user, inflight[p].date) =
                    AggregatesOf(activity_days, inflight[p].user, inflight[p].date) ]_vars

----------------------------------------------------------------------------
(* Frame of updateLog *)

OtherAggregates(acts, userId, date) ==
    { a \in acts : ~(a.user_id = userId /\ a.activity_date = date) }

TypeOK == nextRepoId \in 1..(MaxRepoId + 1)

====
